---- MODULE Spec2Model ----
(***************************************************************************)
(* Model of the path-flattening engine of ezartsh/inrequest (utils.go):    *)
(* replaceBracketKeyIntoDotKey, groupMapKey, transformDotPathToMap,        *)
(* fixValueToActualType, convertMapToSliceIfNumericKeys,                   *)
(* convertStringToActualType and mapValuesOf, of the package-level         *)
(* bracketReplacer they share, and of the request parsers in front of the  *)
(* engine (inrequest.go): Parse, Json, FormData and Query.                 *)
(*                                                                         *)
(* A Go string is a sequence of one-character strings; a RequestValue is a *)
(* function from keys (strings) to values; a value of type interface{} is  *)
(* a record tagged by its dynamic type in the field "kind".                *)
(***************************************************************************)
EXTENDS Integers, Sequences, FiniteSets, TLC

VARIABLES
    pc,         \* position of the call under study
    queries,    \* mapValuesOf: the argument, a sequence of GroupRequestProperty
    mapQuery,   \* mapValuesOf: the GroupRequest returned by groupMapKey
    pending,    \* mapValuesOf: keys of mapQuery the range loop has not visited yet
    maps,       \* mapValuesOf: the RequestValue under construction / returned
    key,        \* replaceBracketKeyIntoDotKey: the argument
    dotKey,     \* replaceBracketKeyIntoDotKey: the returned string
    vMap,       \* convertMapToSliceIfNumericKeys: the argument
    collapsed,  \* convertMapToSliceIfNumericKeys: the returned value
    strValue,   \* convertStringToActualType: the argument
    actual,     \* convertStringToActualType: the returned value
    replacer,   \* the package-level variable bracketReplacer
    calls,      \* goroutines that run mapValuesOf side by side: their locals
    request,    \* the *http.Request handed to Parse, Query or FormData
    branch,     \* Parse: the parser the switch selected
    err,        \* Parse, ToBind: the returned error
    model,      \* ToBind: the struct the argument points to
    stack,      \* the call stack below mapValuesOf, one frame per call in progress
    entered,    \* calls entered since mapValuesOf last called a helper
    rest,       \* mapValuesOf: properties of the current group not yet inserted
    unfixed     \* the tree as it was when the walk began

vars == <<pc, queries, mapQuery, pending, maps, key, dotKey, vMap, collapsed,
          strValue, actual, replacer, calls, request, branch, err, model,
          stack, entered, rest, unfixed>>

\* state outside mapValuesOf and the two helpers called on their own
otherVars == <<strValue, actual, replacer, calls, request, branch, err, model,
               stack, entered, rest, unfixed>>

(***************************************************************************)
(* Bounds of the model.                                                    *)
(***************************************************************************)
MaxKeyLen == 5      \* longest arbitrary string handed to the Path Translator
MaxGroups == 2      \* most bracket groups of a generated well-formed path
MaxProps == 3       \* longest property sequence handed to mapValuesOf
MaxIndex == 3       \* largest array index of a generated sparse-array input
MaxKeys == 3        \* most keys of a mapping handed to the Array Collapser
MaxValueLen == 4    \* longest arbitrary string handed to the Type Coercer

(***************************************************************************)
(* Strings.                                                                *)
(***************************************************************************)
\* All sequences over S of length at most n.
StringsUpTo(S, n) == UNION {[1..k -> S] : k \in 0..n}

\* strings.ContainsAny(s, chars)
ContainsAny(s, chars) == \E i \in 1..Len(s) : s[i] \in chars

\* strings.Contains(s, ".") for a one-character needle c
Contains(s, c) == \E i \in 1..Len(s) : s[i] = c

\* strings.Split(s, "."): always at least one segment
RECURSIVE Split(_)
Split(s) ==
    IF ~Contains(s, ".") THEN <<s>>
    ELSE LET i == CHOOSE j \in 1..Len(s) :
                    s[j] = "." /\ \A h \in 1..(j - 1) : s[h] # "."
         IN  <<SubSeq(s, 1, i - 1)>> \o Split(SubSeq(s, i + 1, Len(s)))

\* strings.Join(segs, ".")
RECURSIVE Join(_)
Join(segs) ==
    IF Len(segs) = 0 THEN <<>>
    ELSE IF Len(segs) = 1 THEN segs[1]
    ELSE segs[1] \o <<".">> \o Join(Tail(segs))

\* strings.Trim(s, "."): drop every leading and every trailing '.'
RECURSIVE TrimLeft(_)
TrimLeft(s) == IF Len(s) > 0 /\ s[1] = "." THEN TrimLeft(Tail(s)) ELSE s

RECURSIVE TrimRight(_)
TrimRight(s) ==
    IF Len(s) > 0 /\ s[Len(s)] = "." THEN TrimRight(SubSeq(s, 1, Len(s) - 1)) ELSE s

Trim(s) == TrimRight(TrimLeft(s))

(***************************************************************************)
(* Path Translator.                                                        *)
(***************************************************************************)
\* strings.NewReplacer("]", "", "[", "."): old character -> new string
NewReplacer == ("]" :> <<>>) @@ ("[" :> <<".">>)

\* bracketReplacer.Replace(s): every old character of the table of the
\* package-level replacer is replaced by its new string
RECURSIVE bracketReplacer(_)
bracketReplacer(s) ==
    IF Len(s) = 0 THEN <<>>
    ELSE (IF s[1] \in DOMAIN replacer THEN replacer[s[1]] ELSE <<s[1]>>)
            \o bracketReplacer(Tail(s))

\* Variant: the final strings.Trim is left out
replaceBracketKeyNoTrim(k) ==
    IF ~ContainsAny(k, {"[", "]"}) THEN k ELSE bracketReplacer(k)

replaceBracketKeyIntoDotKey(k) ==
    IF ~ContainsAny(k, {"[", "]"}) THEN k ELSE Trim(bracketReplacer(k))

(***************************************************************************)
(* Values of type interface{}, tagged by dynamic type.                     *)
(***************************************************************************)
Nil == [kind |-> "nil"]
Str(s) == [kind |-> "string", s |-> s]
Bool(b) == [kind |-> "bool", b |-> b]
\* int and int64 carry sign and canonical decimal digits, so that the 64-bit
\* range is exact
GoInt(neg, digits) == [kind |-> "int", neg |-> neg, digits |-> digits]
GoInt64(neg, digits) == [kind |-> "int64", neg |-> neg, digits |-> digits]
\* float64 as sign, canonical mantissa digits and number of fraction digits
GoFloat64(neg, digits, scale) ==
    [kind |-> "float64", neg |-> neg, digits |-> digits, scale |-> scale]
\* *multipart.FileHeader, opaque
FileRef(id) == [kind |-> "file", id |-> id]
\* RequestValue (map[string]interface{}): m is a function from keys to values
Map(m) == [kind |-> "map", m |-> m]
\* []interface{}
Slice(items) == [kind |-> "slice", items |-> items]
\* the call did not return: a run-time panic unwound it
Panic == [kind |-> "panic"]

\* make(RequestValue)
EmptyMap == [k \in {} |-> Nil]

\* t[k] = v
MapSet(t, k, v) == [x \in (DOMAIN t) \cup {k} |-> IF x = k THEN v ELSE t[x]]

\* delete(t, k)
MapDelete(t, k) == [x \in (DOMAIN t) \ {k} |-> t[x]]

(***************************************************************************)
(* Decimal digits.                                                         *)
(***************************************************************************)
Digits == <<"0", "1", "2", "3", "4", "5", "6", "7", "8", "9">>

DigitSet == {Digits[i] : i \in 1..Len(Digits)}

DigitVal(c) == (CHOOSE i \in 1..Len(Digits) : Digits[i] = c) - 1

AllDigits(s) == \A i \in 1..Len(s) : s[i] \in DigitSet

\* drop leading zeros, keeping one digit
RECURSIVE StripZeros(_)
StripZeros(d) == IF Len(d) > 1 /\ d[1] = "0" THEN StripZeros(Tail(d)) ELSE d

\* drop trailing zeros (of a fraction)
RECURSIVE StripTrailingZeros(_)
StripTrailingZeros(d) ==
    IF Len(d) > 0 /\ d[Len(d)] = "0"
    THEN StripTrailingZeros(SubSeq(d, 1, Len(d) - 1)) ELSE d

\* a <= b for canonical digit strings
RECURSIVE DigitsLeq(_, _)
DigitsLeq(a, b) ==
    IF Len(a) # Len(b) THEN Len(a) < Len(b)
    ELSE IF Len(a) = 0 THEN TRUE
    ELSE IF a[1] # b[1] THEN DigitVal(a[1]) < DigitVal(b[1])
    ELSE DigitsLeq(Tail(a), Tail(b))

\* the number written by a short digit string
RECURSIVE DigitsToNat(_)
DigitsToNat(d) ==
    IF Len(d) = 0 THEN 0
    ELSE 10 * DigitsToNat(SubSeq(d, 1, Len(d) - 1)) + DigitVal(d[Len(d)])

RECURSIVE NatToDigits(_)
NatToDigits(n) ==
    IF n < 10 THEN <<Digits[n + 1]>>
    ELSE NatToDigits(n \div 10) \o <<Digits[(n % 10) + 1]>>

\* strconv.Itoa
Itoa(n) == IF n < 0 THEN <<"-">> \o NatToDigits(-n) ELSE NatToDigits(n)

HasSign(s) == Len(s) > 0 /\ s[1] \in {"+", "-"}

Unsigned(s) == IF HasSign(s) THEN Tail(s) ELSE s

\* strconv.Atoi(s): an optional sign, then one or more decimal digits.  The
\* keys of the model are short, so the value always fits an int.
AtoiOk(s) == Len(Unsigned(s)) >= 1 /\ AllDigits(Unsigned(s))

AtoiVal(s) ==
    IF s[1] = "-" THEN 0 - DigitsToNat(Unsigned(s)) ELSE DigitsToNat(Unsigned(s))

(***************************************************************************)
(* Type Coercer.                                                           *)
(***************************************************************************)
MaxInt32Digits == <<"2", "1", "4", "7", "4", "8", "3", "6", "4", "7">>
MinInt32Digits == <<"2", "1", "4", "7", "4", "8", "3", "6", "4", "8">>
MaxInt64Digits == <<"9", "2", "2", "3", "3", "7", "2", "0", "3", "6",
                    "8", "5", "4", "7", "7", "5", "8", "0", "7">>
MinInt64Digits == <<"9", "2", "2", "3", "3", "7", "2", "0", "3", "6",
                    "8", "5", "4", "7", "7", "5", "8", "0", "8">>

\* strconv.ParseInt(s, 10, 64) returns a nil error
ParseIntOk(s) ==
    /\ AtoiOk(s)
    /\ LET d == StripZeros(Unsigned(s))
       IN  IF s[1] = "-" THEN DigitsLeq(d, MinInt64Digits)
           ELSE DigitsLeq(d, MaxInt64Digits)

\* Variant: the lower end of the 32-bit range is taken to be -(2^31 - 1)
IntValueSymmetric(s) ==
    LET d   == StripZeros(Unsigned(s))
        neg == s[1] = "-" /\ d # <<"0">>
    IN  IF DigitsLeq(d, MaxInt32Digits) THEN GoInt(neg, d) ELSE GoInt64(neg, d)

\* the int or int64 convertStringToActualType returns for a parsed integer
IntValue(s) ==
    LET d   == StripZeros(Unsigned(s))
        neg == s[1] = "-" /\ d # <<"0">>
    IN  IF (IF neg THEN DigitsLeq(d, MinInt32Digits) ELSE DigitsLeq(d, MaxInt32Digits))
        THEN GoInt(neg, d)
        ELSE GoInt64(neg, d)

\* strconv.ParseFloat(s, 64), decimal syntax: an optional sign, decimal
\* digits around at most one '.', at least one digit, then an optional
\* exponent 'e' or 'E' with an optional sign and at least one digit.  (The
\* hexadecimal syntax needs an 'x', which is outside the strings studied.)
DotIndex(s) == CHOOSE i \in 1..Len(s) : s[i] = "." /\ \A h \in 1..(i - 1) : s[h] # "."

\* the position of the exponent marker, 0 without one
ExpIndex(u) ==
    IF \E i \in 1..Len(u) : u[i] \in {"e", "E"}
    THEN CHOOSE i \in 1..Len(u) :
            u[i] \in {"e", "E"} /\ \A h \in 1..(i - 1) : u[h] \notin {"e", "E"}
    ELSE 0

Mantissa(u) == IF ExpIndex(u) = 0 THEN u ELSE SubSeq(u, 1, ExpIndex(u) - 1)

Exponent(u) == IF ExpIndex(u) = 0 THEN <<>> ELSE SubSeq(u, ExpIndex(u) + 1, Len(u))

\* digits before and after the '.' of a mantissa
IntPart(m) == IF Contains(m, ".") THEN SubSeq(m, 1, DotIndex(m) - 1) ELSE m

FracPart(m) == IF Contains(m, ".") THEN SubSeq(m, DotIndex(m) + 1, Len(m)) ELSE <<>>

\* the string is well-formed
FloatSyntaxOk(s) ==
    LET u == Unsigned(s)
        m == Mantissa(u)
    IN  /\ AllDigits(IntPart(m)) /\ AllDigits(FracPart(m))
        /\ Len(IntPart(m)) + Len(FracPart(m)) >= 1
        /\ ExpIndex(u) # 0 => AtoiOk(Exponent(u))

\* largest and smallest decimal order of magnitude of a float64: values from
\* 10^309 on are out of range, values below 10^-324 round to zero
MaxFloatOrder == 309
MinFloatOrder == -323

\* the first 17 digits of 2^1024 - 2^970, from which on a value of order
\* 309 rounds to infinity
MaxFloatDigits == <<"1", "7", "9", "7", "6", "9", "3", "1", "3", "4", "8",
                    "6", "2", "3", "1", "5", "8">>

\* decimal exponents of more digits than this are beyond every float64
MaxExpDigits == 4

\* the significant digits of a well-formed string, without leading zeros
FloatDigits(s) ==
    LET m == Mantissa(Unsigned(s)) IN StripZeros(IntPart(m) \o FracPart(m))

FloatIsZero(s) == FloatDigits(s) \in {<<>>, <<"0">>}

ExpDigits(s) == StripZeros(Unsigned(Exponent(Unsigned(s))))

ExpNegative(s) == LET e == Exponent(Unsigned(s)) IN Len(e) > 0 /\ e[1] = "-"

ExpHuge(s) == Len(ExpDigits(s)) > MaxExpDigits

\* the written exponent
ExpValue(s) ==
    IF ExpIndex(Unsigned(s)) = 0 THEN 0
    ELSE IF ExpNegative(s) THEN 0 - DigitsToNat(ExpDigits(s))
    ELSE DigitsToNat(ExpDigits(s))

\* the value is FloatDigits * 10^(-FloatScale)
FloatScale(s) == Len(FracPart(Mantissa(Unsigned(s)))) - ExpValue(s)

\* the value lies in [10^(order-1), 10^order)
FloatOrder(s) == Len(FloatDigits(s)) - FloatScale(s)

\* a <= b for digit strings read as fractions 0.a and 0.b
RECURSIVE FractionLeq(_, _)
FractionLeq(a, b) ==
    IF Len(a) = 0 THEN TRUE
    ELSE IF Len(b) = 0 THEN AllDigits(a) /\ \A i \in 1..Len(a) : a[i] = "0"
    ELSE IF a[1] # b[1] THEN DigitVal(a[1]) < DigitVal(b[1])
    ELSE FractionLeq(Tail(a), Tail(b))

\* the value is too large for a float64: ParseFloat returns ErrRange
FloatOverflow(s) ==
    /\ ~FloatIsZero(s)
    /\ IF ExpHuge(s) THEN ~ExpNegative(s)
       ELSE \/ FloatOrder(s) > MaxFloatOrder
            \/ FloatOrder(s) = MaxFloatOrder /\ FractionLeq(MaxFloatDigits, FloatDigits(s))

\* the value is too small for a float64: ParseFloat returns zero, no error
FloatUnderflow(s) ==
    /\ ~FloatIsZero(s)
    /\ IF ExpHuge(s) THEN ExpNegative(s) ELSE FloatOrder(s) < MinFloatOrder

\* strconv.ParseFloat(s, 64) returns a nil error
ParseFloatOk(s) == FloatSyntaxOk(s) /\ ~FloatOverflow(s)

\* the float64 ParseFloat returns, as sign, digits without trailing zeros
\* and decimal scale; rounding to 53 bits is not modelled
FloatValue(s) ==
    IF FloatIsZero(s) \/ FloatUnderflow(s) THEN GoFloat64(s[1] = "-", <<"0">>, 0)
    ELSE LET d == FloatDigits(s)
             z == Len(d) - Len(StripTrailingZeros(d))
         IN  GoFloat64(s[1] = "-", StripTrailingZeros(d), FloatScale(s) - z)

\* Variant: the boolean words are recognised in any letter case
convertStringFoldCase(value) ==
    IF value = <<>> THEN Str(value)
    ELSE IF value \in {<<"t", "r", "u", "e">>, <<"T", "r", "u", "e">>} THEN Bool(TRUE)
    ELSE IF value \in {<<"f", "a", "l", "s", "e">>, <<"F", "a", "l", "s", "e">>}
    THEN Bool(FALSE)
    ELSE IF Len(value) > 1 /\ value[1] = "0" /\ value[2] # "." THEN Str(value)
    ELSE IF Contains(value, ".")
         THEN (IF ParseFloatOk(value) THEN FloatValue(value) ELSE Str(value))
    ELSE IF ParseIntOk(value) THEN IntValue(value)
    ELSE Str(value)

\* Variant: without the leading-zero rule
convertStringNoLeadingZero(value) ==
    IF value = <<>> THEN Str(value)
    ELSE IF value = <<"t", "r", "u", "e">> THEN Bool(TRUE)
    ELSE IF value = <<"f", "a", "l", "s", "e">> THEN Bool(FALSE)
    ELSE IF Contains(value, ".")
         THEN (IF ParseFloatOk(value) THEN FloatValue(value) ELSE Str(value))
    ELSE IF ParseIntOk(value) THEN IntValue(value)
    ELSE Str(value)

\* Variant: a value with a leading zero loses that zero and stays a string
convertStringDropZero(value) ==
    IF value = <<>> THEN Str(value)
    ELSE IF value = <<"t", "r", "u", "e">> THEN Bool(TRUE)
    ELSE IF value = <<"f", "a", "l", "s", "e">> THEN Bool(FALSE)
    ELSE IF Len(value) > 1 /\ value[1] = "0" /\ value[2] # "." THEN Str(Tail(value))
    ELSE IF Contains(value, ".")
         THEN (IF ParseFloatOk(value) THEN FloatValue(value) ELSE Str(value))
    ELSE IF ParseIntOk(value) THEN IntValue(value)
    ELSE Str(value)

convertStringToActualType(value) ==
    IF value = <<>> THEN Str(value)
    ELSE IF value = <<"t", "r", "u", "e">> THEN Bool(TRUE)
    ELSE IF value = <<"f", "a", "l", "s", "e">> THEN Bool(FALSE)
    ELSE IF Len(value) > 1 /\ value[1] = "0" /\ value[2] # "." THEN Str(value)
    ELSE IF Contains(value, ".")
         THEN (IF ParseFloatOk(value) THEN FloatValue(value) ELSE Str(value))
    ELSE IF ParseIntOk(value) THEN IntValue(value)
    ELSE Str(value)

(***************************************************************************)
(* Grouper.                                                                *)
(***************************************************************************)
\* GroupRequestProperty{Path, Value}
Property(path, value) == [Path |-> path, Value |-> value]

\* the loop of groupMapKey over the rest of data
RECURSIVE groupMapKeyLoop(_, _)
groupMapKeyLoop(mq, data) ==
    IF Len(data) = 0 THEN mq
    ELSE LET p     == Head(data)
             dk    == replaceBracketKeyIntoDotKey(p.Path)
             paths == Split(dk)
             old   == IF paths[1] \in DOMAIN mq THEN mq[paths[1]] ELSE <<>>
         IN  groupMapKeyLoop(
                 MapSet(mq, paths[1], Append(old, Property(dk, p.Value))),
                 Tail(data))

\* Variant: the group stores the property as given, its path not translated
RECURSIVE groupMapKeyRawLoop(_, _)
groupMapKeyRawLoop(mq, data) ==
    IF Len(data) = 0 THEN mq
    ELSE LET p     == Head(data)
             paths == Split(replaceBracketKeyIntoDotKey(p.Path))
             old   == IF paths[1] \in DOMAIN mq THEN mq[paths[1]] ELSE <<>>
         IN  groupMapKeyRawLoop(MapSet(mq, paths[1], Append(old, p)), Tail(data))

groupMapKeyRawPath(data) == groupMapKeyRawLoop(EmptyMap, data)

groupMapKey(data) == groupMapKeyLoop(EmptyMap, data)

(***************************************************************************)
(* Tree Builder.                                                           *)
(***************************************************************************)
\* Variant: the value is bound under the whole dot path, without nesting
transformDotPathFlat(t, dotPath, value) == MapSet(t, dotPath, value)

\* Variant: the child mapping is made anew on every call, so that what was
\* written under it before is lost
RECURSIVE transformDotPathFresh(_, _, _)
transformDotPathFresh(t, dotPath, value) ==
    LET paths == Split(dotPath)
    IN  IF Len(paths) = 1 THEN MapSet(t, dotPath, value)
        ELSE MapSet(MapDelete(t, dotPath), paths[1],
                Map(transformDotPathFresh(EmptyMap, Join(Tail(paths)), value)))

\* transformDotPathToMap(&t, dotPath, value): the map t after the call
RECURSIVE transformDotPathToMap(_, _, _)
transformDotPathToMap(t, dotPath, value) ==
    LET paths == Split(dotPath)
    IN  IF Len(paths) = 1 THEN MapSet(t, dotPath, value)
        ELSE LET t1 == IF paths[1] \notin DOMAIN t
                       THEN MapSet(t, paths[1], Map(EmptyMap))
                       ELSE t
                 t2 == MapDelete(t1, dotPath)
             IN  IF t2[paths[1]].kind = "map"
                 THEN MapSet(t2, paths[1],
                         Map(transformDotPathToMap(t2[paths[1]].m,
                                                   Join(Tail(paths)), value)))
                 ELSE t2

(***************************************************************************)
(* Array Collapser.                                                        *)
(***************************************************************************)
SetMax(S) == CHOOSE x \in S : \A y \in S : y <= x

\* Variant: the slice has one element per key, in index order, without gaps
RECURSIVE DenseItems(_, _)
DenseItems(m, keys) ==
    IF keys = {} THEN <<>>
    ELSE LET i == CHOOSE x \in keys : \A y \in keys : x <= y
         IN  <<IF Itoa(i) \in DOMAIN m THEN m[Itoa(i)] ELSE Nil>>
                \o DenseItems(m, keys \ {i})

convertMapToSliceDense(m) ==
    IF (\E k \in DOMAIN m : ~AtoiOk(k)) \/ DOMAIN m = {} THEN Map(m)
    ELSE Slice(DenseItems(m, {AtoiVal(k) : k \in DOMAIN m}))

\* Variant: a key that fails to parse is skipped instead of ending the scan
convertMapToSliceSkipNonNumeric(m) ==
    LET keys == {AtoiVal(k) : k \in {x \in DOMAIN m : AtoiOk(x)}}
    IN  IF keys = {} THEN Map(m)
        ELSE IF \E i \in keys : i < 0 THEN Panic
        ELSE Slice([j \in 1..(SetMax(keys) + 1) |->
                    IF (j - 1) \in keys /\ Itoa(j - 1) \in DOMAIN m
                    THEN m[Itoa(j - 1)]
                    ELSE Nil])

\* convertMapToSliceIfNumericKeys(vMap): the map itself, a slice, or a panic
\* (make with a negative length, or an index below zero)
convertMapToSliceIfNumericKeys(m) ==
    LET allNumeric == \A k \in DOMAIN m : AtoiOk(k)
        keys       == {AtoiVal(k) : k \in {x \in DOMAIN m : AtoiOk(x)}}
    IN  IF ~allNumeric \/ DOMAIN m = {} THEN Map(m)
        ELSE LET maxIndex == SetMax(keys)
             IN  IF \E i \in keys : i < 0 THEN Panic
                 ELSE Slice([j \in 1..(maxIndex + 1) |->
                             IF (j - 1) \in keys /\ Itoa(j - 1) \in DOMAIN m
                             THEN m[Itoa(j - 1)]
                             ELSE Nil])

(***************************************************************************)
(* Post-order walk.                                                        *)
(***************************************************************************)
\* Variant: the walk stops at the first level and does not enter child maps
fixValueShallow(t) ==
    LET f == [k \in DOMAIN t |->
                IF t[k].kind = "map"
                THEN convertMapToSliceIfNumericKeys(t[k].m)
                ELSE IF t[k].kind = "string"
                THEN convertStringToActualType(t[k].s)
                ELSE t[k]]
    IN  IF \E k \in DOMAIN t : f[k].kind = "panic" THEN Panic ELSE Map(f)

\* fixValueToActualType(&t): Map(t after the call), or Panic
RECURSIVE fixValueToActualType(_)
fixValueToActualType(t) ==
    LET f == [k \in DOMAIN t |->
                IF t[k].kind = "map"
                THEN LET r == fixValueToActualType(t[k].m)
                     IN  IF r.kind = "panic" THEN Panic
                         ELSE convertMapToSliceIfNumericKeys(r.m)
                ELSE IF t[k].kind = "string"
                THEN convertStringToActualType(t[k].s)
                ELSE t[k]]
    IN  IF \E k \in DOMAIN t : f[k].kind = "panic" THEN Panic ELSE Map(f)

(***************************************************************************)
(* Orchestrator: mapValuesOf.                                              *)
(***************************************************************************)
\* for _, v := range query { transformDotPathToMap(&maps, v.Path, v.Value) }
RECURSIVE rangeQuery(_, _)
rangeQuery(t, query) ==
    IF Len(query) = 0 THEN t
    ELSE rangeQuery(transformDotPathToMap(t, Head(query).Path, Head(query).Value),
                    Tail(query))

\* Variant: every iteration of the loop starts from a fresh result map
rangeGroupReset(t, k, query) ==
    rangeQuery(MapSet(EmptyMap, k, Map(EmptyMap)), query)

\* one iteration of the loop over mapQuery, for the group of key k
rangeGroup(t, k, query) ==
    rangeQuery(IF k \notin DOMAIN t THEN MapSet(t, k, Map(EmptyMap)) ELSE t, query)

Unused == <<>>

\* no request is being parsed
NoRequest == [ContentType |-> <<>>]

\* the package-level replacer as initialised, and nothing else in progress
IdleOthers ==
    /\ strValue = Unused
    /\ actual = Nil
    /\ model = Unused
    /\ stack = <<>>
    /\ entered = 0
    /\ rest = <<>>
    /\ unfixed = EmptyMap
    /\ replacer = NewReplacer
    /\ calls = <<>>
    /\ request = NoRequest
    /\ branch = Unused
    /\ err = Nil

\* maps := make(RequestValue); mapQuery := groupMapKey(queries)
GroupKeys ==
    /\ pc = "call"
    /\ mapQuery' = groupMapKey(queries)
    /\ pending' = DOMAIN mapQuery'
    /\ maps' = EmptyMap
    /\ pc' = "range"
    /\ UNCHANGED <<queries, key, dotKey, vMap, collapsed>>
    /\ UNCHANGED otherVars

\* one iteration of `for key, query := range mapQuery`, in any order of keys
RangeGroup ==
    /\ pc = "range"
    /\ \E k \in pending :
        /\ maps' = rangeGroup(maps, k, mapQuery[k])
        /\ pending' = pending \ {k}
    /\ UNCHANGED <<pc, queries, mapQuery, key, dotKey, vMap, collapsed>>
    /\ UNCHANGED otherVars

\* Variant: the root goes through the collapser as well, and a collapsed root
\* is returned as a map keyed by the indices of the sequence
FixTypesCollapseRoot ==
    /\ pc = "range"
    /\ pending = {}
    /\ LET r == fixValueToActualType(maps)
           c == IF r.kind = "panic" THEN Panic
                ELSE convertMapToSliceIfNumericKeys(r.m)
       IN  IF c.kind = "panic"
           THEN pc' = "panic" /\ maps' = maps
           ELSE /\ pc' = "return"
                /\ maps' = IF c.kind = "slice"
                           THEN [k \in {Itoa(i - 1) : i \in 1..Len(c.items)} |->
                                    c.items[CHOOSE i \in 1..Len(c.items) : Itoa(i - 1) = k]]
                           ELSE c.m
    /\ UNCHANGED <<queries, mapQuery, pending, key, dotKey, vMap, collapsed>>
    /\ UNCHANGED otherVars

\* fixValueToActualType(&maps); return maps
FixTypes ==
    /\ pc = "range"
    /\ pending = {}
    /\ LET r == fixValueToActualType(maps)
       IN  IF r.kind = "panic"
           THEN pc' = "panic" /\ maps' = maps
           ELSE pc' = "return" /\ maps' = r.m
    /\ UNCHANGED <<queries, mapQuery, pending, key, dotKey, vMap, collapsed>>
    /\ UNCHANGED otherVars

Next == GroupKeys \/ RangeGroup \/ FixTypes

\* Inputs of mapValuesOf: raw form/query fields
Values == {Str(<<"x">>), Str(<<"7">>)}

Paths == {
    <<"a">>,
    <<"a", "[", "b", "]">>,
    <<"a", ".", "b">>,
    <<"a", "[", "0", "]">>,
    <<"a", "[", "-", "1", "]">>,
    <<"a", "[", "0", "1", "]">>,
    <<"b", "[">>,
    <<"[", "0", "]", ".", "a">>
}

Properties == {Property(p, v) : p \in Paths, v \in Values}

Init ==
    /\ pc = "call"
    /\ queries \in StringsUpTo(Properties, MaxProps)
    /\ mapQuery = EmptyMap
    /\ pending = {}
    /\ maps = EmptyMap
    /\ key = Unused
    /\ dotKey = Unused
    /\ vMap = EmptyMap
    /\ collapsed = Nil
    /\ IdleOthers

Spec == Init /\ [][Next]_vars

(***************************************************************************)
(* mapValuesOf on sparse-array inputs: the properties k[i], i in S, in any *)
(* order.                                                                  *)
(***************************************************************************)
SparseKeys == {<<"a">>, <<"i", "t">>}

\* one index of two digits, so that numeric and textual order differ
SparseIndices == (0..MaxIndex) \cup {10}

\* buildIndexedPath(name, index): name[index]
buildIndexedPath(name, index) == name \o <<"[">> \o Itoa(index) \o <<"]">>

\* the orders of the properties k[i] = f[i], i in DOMAIN f
SparseInputs ==
    UNION {
        {q \in [1..n -> {Property(buildIndexedPath(k, i), v) :
                            i \in SparseIndices, v \in Values}] :
            \A x, y \in 1..n : x # y => q[x].Path # q[y].Path}
        : k \in SparseKeys, n \in 1..MaxProps}

InitSparse ==
    /\ pc = "call"
    /\ queries \in SparseInputs
    /\ mapQuery = EmptyMap
    /\ pending = {}
    /\ maps = EmptyMap
    /\ key = Unused
    /\ dotKey = Unused
    /\ vMap = EmptyMap
    /\ collapsed = Nil
    /\ IdleOthers

SpecSparse == InitSparse /\ [][Next]_vars

(***************************************************************************)
(* The Path Translator called on its own.                                  *)
(***************************************************************************)
PathChars == {"a", "0", "[", "]", "."}

Segments == {<<"a">>, <<"0">>, <<"t", "o">>}

RECURSIVE BracketGroups(_)
BracketGroups(ks) ==
    IF Len(ks) = 0 THEN <<>>
    ELSE <<"[">> \o Head(ks) \o <<"]">> \o BracketGroups(Tail(ks))

\* base[k1][k2]...[kn]
Bracketed(base, ks) == base \o BracketGroups(ks)

KeyInputs ==
    StringsUpTo(PathChars, MaxKeyLen)
        \cup {Bracketed(base, ks) : base \in Segments \cup {<<>>},
                                    ks \in StringsUpTo(Segments, MaxGroups)}

InitPath ==
    /\ pc = "translate"
    /\ key \in KeyInputs
    /\ dotKey = Unused
    /\ queries = <<>>
    /\ mapQuery = EmptyMap
    /\ pending = {}
    /\ maps = EmptyMap
    /\ vMap = EmptyMap
    /\ collapsed = Nil
    /\ IdleOthers

\* dotKey := replaceBracketKeyIntoDotKey(key)
Translate ==
    /\ pc = "translate"
    /\ dotKey' = replaceBracketKeyIntoDotKey(key)
    /\ pc' = "translated"
    /\ UNCHANGED <<queries, mapQuery, pending, maps, key, vMap, collapsed>>
    /\ UNCHANGED otherVars

SpecPath == InitPath /\ [][Translate]_vars

(***************************************************************************)
(* The Array Collapser called on its own.                                  *)
(***************************************************************************)
\* alphabetic, digit, zero-padded, signed and empty keys
CollapseKeys == {
    <<"0">>, <<"1">>, <<"2">>, <<"5">>,
    <<"a">>, <<"1", "a">>,
    <<"0", "1">>, <<"+", "1">>, <<"-", "1">>,
    <<>>
}

CollapseValues == {Str(<<"x">>), Str(<<"y">>)}

CollapseInputs ==
    UNION {[D -> CollapseValues] :
            D \in {K \in SUBSET CollapseKeys : Cardinality(K) <= MaxKeys}}

InitCollapse ==
    /\ pc = "collapse"
    /\ vMap \in CollapseInputs
    /\ collapsed = Nil
    /\ queries = <<>>
    /\ mapQuery = EmptyMap
    /\ pending = {}
    /\ maps = EmptyMap
    /\ key = Unused
    /\ dotKey = Unused
    /\ IdleOthers

\* collapsed := convertMapToSliceIfNumericKeys(vMap)
Collapse ==
    /\ pc = "collapse"
    /\ collapsed' = convertMapToSliceIfNumericKeys(vMap)
    /\ pc' = IF collapsed'.kind = "panic" THEN "collapse-panic" ELSE "collapsed"
    /\ UNCHANGED <<queries, mapQuery, pending, maps, key, dotKey, vMap>>
    /\ UNCHANGED otherVars

SpecCollapse == InitCollapse /\ [][Collapse]_vars

\* the Array Collapser on its own, and inside mapValuesOf
SpecCollapseAndMap == (InitCollapse \/ Init) /\ [][Collapse \/ Next]_vars

(***************************************************************************)
(* mapValuesOf on nested objects: bracket and dot notation, several levels, *)
(* an empty bracket group, and indices below an object key.                *)
(***************************************************************************)
DeepPaths == {
    <<"u", "[", "n", "]">>,
    <<"u", "[", "a", "]", "[", "c", "]">>,
    <<"u", ".", "a", ".", "d">>,
    <<"u">>,
    <<"u", "[", "a", "]">>,
    <<"d">>,
    <<"u", "[", "]", "[", "c", "]">>,
    <<"u", "[", "0", "]", "[", "n", "]">>,
    <<"u", "[", "0", "]", "[", "1", "]">>
}

DeepProperties == {Property(p, v) : p \in DeepPaths, v \in Values}

InitDeep ==
    /\ pc = "call"
    /\ queries \in StringsUpTo(DeepProperties, MaxProps)
    /\ mapQuery = EmptyMap
    /\ pending = {}
    /\ maps = EmptyMap
    /\ key = Unused
    /\ dotKey = Unused
    /\ vMap = EmptyMap
    /\ collapsed = Nil
    /\ IdleOthers

SpecDeep == InitDeep /\ [][Next]_vars

\* nested objects, or the colliding and indexed paths of Spec
SpecDeepAndMap == (InitDeep \/ Init) /\ [][Next]_vars

(***************************************************************************)
(* The Type Coercer called on its own.                                     *)
(***************************************************************************)
\* a digit that is zero, digits that are not, the point, the signs and the
\* exponent marker
CoerceChars == {"0", "1", "7", ".", "-", "+", "e"}

\* the strings of the tests and of the documentation, and the ends of the
\* 32-bit, 64-bit and float64 ranges
SpecialValues == {
    <<"t", "r", "u", "e">>, <<"f", "a", "l", "s", "e">>,
    <<"T", "r", "u", "e">>, <<"F", "a", "l", "s", "e">>,
    <<"t", "r", "u", "e", " ">>,
    <<"n", "u", "l", "l">>,
    <<"h", "e", "l", "l", "o">>,
    <<"0", "8", "1", "2", "3", "4", "5", "6", "7", "8", "9">>,
    <<"0", "0", "1", "2", "3">>,
    <<"0", "x", "1", "0">>,
    <<"3", ".", "1", "4", "1", "5", "9">>,
    <<"1", ".", "5", "e", "4", "0", "0">>,
    <<"1", ".", "5", "e", "-", "4", "0", "0">>,
    <<"1", ".", "7", "e", "3", "0", "8">>,
    <<"1", ".", "8", "e", "3", "0", "8">>,
    <<"9", "9", "9", "9", "9", "9", "9", "9", "9", "9", "9", "9", "9">>,
    MaxInt32Digits, MinInt32Digits,
    <<"-">> \o MinInt32Digits, <<"-">> \o SubSeq(MinInt32Digits, 1, 9) \o <<"9">>,
    <<"+">> \o MaxInt32Digits,
    MaxInt64Digits, MinInt64Digits,
    <<"-">> \o MinInt64Digits, <<"-">> \o SubSeq(MinInt64Digits, 1, 18) \o <<"9">>,
    <<"-", "0", "0", "7">>
}

CoerceInputs == StringsUpTo(CoerceChars, MaxValueLen) \cup SpecialValues

InitCoerce ==
    /\ pc = "coerce"
    /\ strValue \in CoerceInputs
    /\ actual = Nil
    /\ model = Unused
    /\ stack = <<>>
    /\ entered = 0
    /\ rest = <<>>
    /\ unfixed = EmptyMap
    /\ replacer = NewReplacer
    /\ calls = <<>>
    /\ request = NoRequest
    /\ branch = Unused
    /\ err = Nil
    /\ queries = <<>>
    /\ mapQuery = EmptyMap
    /\ pending = {}
    /\ maps = EmptyMap
    /\ key = Unused
    /\ dotKey = Unused
    /\ vMap = EmptyMap
    /\ collapsed = Nil

\* actual := convertStringToActualType(strValue)
Coerce ==
    /\ pc = "coerce"
    /\ actual' = convertStringToActualType(strValue)
    /\ pc' = "coerced"
    /\ UNCHANGED <<queries, mapQuery, pending, maps, key, dotKey, vMap, collapsed>>
    /\ UNCHANGED <<strValue, replacer, calls, request, branch, err, model,
                   stack, entered, rest, unfixed>>

SpecCoerce == InitCoerce /\ [][Coerce]_vars

(***************************************************************************)
(* mapValuesOf on typed values: uploaded files, values that are already    *)
(* typed, nil, and the raw strings "7" and "null".                         *)
(***************************************************************************)
TypedPaths == {
    <<"f">>,
    <<"f", "[", "1", "]">>,
    <<"f", "[", "0", "1", "]">>,
    <<"g", "[", "a", "]">>
}

TypedValues == {
    FileRef(1),
    Bool(TRUE),
    GoFloat64(FALSE, <<"7">>, 0),
    Nil,
    Str(<<"7">>),
    Str(<<"n", "u", "l", "l">>)
}

TypedProperties == {Property(p, v) : p \in TypedPaths, v \in TypedValues}

InitTyped ==
    /\ pc = "call"
    /\ queries \in StringsUpTo(TypedProperties, MaxProps)
    /\ mapQuery = EmptyMap
    /\ pending = {}
    /\ maps = EmptyMap
    /\ key = Unused
    /\ dotKey = Unused
    /\ vMap = EmptyMap
    /\ collapsed = Nil
    /\ IdleOthers

SpecTyped == InitTyped /\ [][Next]_vars

(***************************************************************************)
(* mapValuesOf called from several goroutines, each on its own argument.   *)
(* A call owns its locals (queries, mapQuery, maps); the package-level     *)
(* bracketReplacer is the one value every call reaches.                    *)
(***************************************************************************)
NumCalls == 2        \* goroutines that call mapValuesOf side by side
MaxConcProps == 2    \* longest property sequence of one of these calls

ConcProperties == {
    Property(<<"a", "[", "b", "]">>, Str(<<"7">>)),
    Property(<<"c", "[", "0", "]">>, Str(<<"x">>))
}

ConcInputs == StringsUpTo(ConcProperties, MaxConcProps)

\* the locals of a call that has not started
Call(q) == [pc |-> "call", queries |-> q, mapQuery |-> EmptyMap,
            pending |-> {}, maps |-> EmptyMap]

\* Variant: the table is cleared for a rebuild whenever it is used
replacerCleared(rep) == [c \in {} |-> <<>>]

\* the package-level replacer after bracketReplacer.Replace(key): Replace
\* only reads the table, and no statement assigns to bracketReplacer
replacerAfterReplace(rep) == rep

InitConcurrent ==
    /\ pc = "go"
    /\ calls \in [1..NumCalls -> {Call(q) : q \in ConcInputs}]
    /\ replacer = NewReplacer
    /\ strValue = Unused
    /\ actual = Nil
    /\ model = Unused
    /\ stack = <<>>
    /\ entered = 0
    /\ rest = <<>>
    /\ unfixed = EmptyMap
    /\ request = NoRequest
    /\ branch = Unused
    /\ err = Nil
    /\ queries = <<>>
    /\ mapQuery = EmptyMap
    /\ pending = {}
    /\ maps = EmptyMap
    /\ key = Unused
    /\ dotKey = Unused
    /\ vMap = EmptyMap
    /\ collapsed = Nil

\* what a step of a goroutine leaves alone
concFrame == <<pc, queries, mapQuery, pending, maps, key, dotKey, vMap, collapsed,
               strValue, actual, request, branch, err, model,
               stack, entered, rest, unfixed>>

\* call c: maps := make(RequestValue); mapQuery := groupMapKey(queries)
CallGroupKeys(c) ==
    /\ calls[c].pc = "call"
    /\ LET mq == groupMapKey(calls[c].queries)
       IN  calls' = [calls EXCEPT ![c] = [@ EXCEPT !.mapQuery = mq,
                                                  !.pending = DOMAIN mq,
                                                  !.maps = EmptyMap,
                                                  !.pc = "range"]]
    /\ replacer' = replacerAfterReplace(replacer)
    /\ UNCHANGED concFrame

\* call c: one iteration of `for key, query := range mapQuery`
CallRangeGroup(c) ==
    /\ calls[c].pc = "range"
    /\ \E k \in calls[c].pending :
        calls' = [calls EXCEPT ![c] =
                    [@ EXCEPT !.maps = rangeGroup(@, k, calls[c].mapQuery[k]),
                              !.pending = @ \ {k}]]
    /\ UNCHANGED replacer
    /\ UNCHANGED concFrame

\* call c: fixValueToActualType(&maps); return maps
CallFixTypes(c) ==
    /\ calls[c].pc = "range"
    /\ calls[c].pending = {}
    /\ LET res == fixValueToActualType(calls[c].maps)
       IN  calls' = [calls EXCEPT ![c] =
                        IF res.kind = "panic" THEN [@ EXCEPT !.pc = "panic"]
                        ELSE [@ EXCEPT !.pc = "return", !.maps = res.m]]
    /\ UNCHANGED replacer
    /\ UNCHANGED concFrame

NextConcurrent ==
    \E c \in 1..NumCalls : CallGroupKeys(c) \/ CallRangeGroup(c) \/ CallFixTypes(c)

SpecConcurrent == InitConcurrent /\ [][NextConcurrent]_vars

(***************************************************************************)
(* Request parsers: Parse, Json, FormData and Query (inrequest.go).  A     *)
(* request carries its Content-Type header, its body as json.Decoder sees  *)
(* it, the values of r.URL.Query(), of r.PostForm and of r.MultipartForm,  *)
(* and whether ParseForm / ParseMultipartForm fails.                       *)
(***************************************************************************)
\* strings.HasPrefix(s, prefix)
HasPrefix(s, prefix) == Len(prefix) <= Len(s) /\ SubSeq(s, 1, Len(prefix)) = prefix

JsonType ==
    <<"a", "p", "p", "l", "i", "c", "a", "t", "i", "o", "n", "/", "j",
      "s", "o", "n">>

MultipartType ==
    <<"m", "u", "l", "t", "i", "p", "a", "r", "t", "/", "f", "o", "r",
      "m", "-", "d", "a", "t", "a">>

UrlEncodedType ==
    <<"a", "p", "p", "l", "i", "c", "a", "t", "i", "o", "n", "/", "x",
      "-", "w", "w", "w", "-", "f", "o", "r", "m", "-", "u", "r", "l",
      "e", "n", "c", "o", "d", "e", "d">>

\* FileHeaders(files)
FileHeaders(files) == [kind |-> "files", items |-> files]

\* a non-nil error
Error == [kind |-> "error"]

\* the orders in which a range loop may visit the keys of a Go map
Orders(S) ==
    {o \in [1..Cardinality(S) -> S] : \A i, j \in 1..Cardinality(S) : i # j => o[i] # o[j]}

RECURSIVE Flatten(_)
Flatten(ss) == IF Len(ss) = 0 THEN <<>> ELSE Head(ss) \o Flatten(Tail(ss))

\* Variant: every value of a name is appended, also when the name has a '['
appendValuesEach(name, val) ==
    IF Len(val) = 1
    THEN <<Property(name, Str(val[1]))>>
    ELSE [i \in 1..Len(val) |->
            Property(IF Contains(name, "[") THEN name ELSE buildIndexedPath(name, i - 1),
                     Str(val[i]))]

\* the body of the loop over form or query values: the properties appended
\* for one name
appendValues(name, val) ==
    IF Contains(name, "[") \/ Len(val) = 1
    THEN <<Property(name, Str(val[1]))>>
    ELSE [i \in 1..Len(val) |-> Property(buildIndexedPath(name, i - 1), Str(val[i]))]

\* the body of the loop over r.MultipartForm.File
appendFiles(name, files) ==
    IF Contains(name, "[")
    THEN (IF Len(files) = 1 THEN <<Property(name, files[1])>>
          ELSE <<Property(name, FileHeaders(files))>>)
    ELSE (IF Len(files) = 1 THEN <<Property(name, files[1])>>
          ELSE [i \in 1..Len(files) |-> Property(buildIndexedPath(name, i - 1), files[i])])

\* parseURLEncodedForm(values, forms), the keys of values visited in order
parseURLEncodedForm(values, forms, order) ==
    forms \o Flatten([i \in 1..Len(order) |-> appendValues(order[i], values[order[i]])])

\* parseMultipartForm(r, forms): the values, then the files
parseMultipartForm(req, forms, order, fileOrder) ==
    forms
        \o Flatten([i \in 1..Len(order) |->
                        appendValues(order[i], req.MultipartValue[order[i]])])
        \o Flatten([i \in 1..Len(fileOrder) |->
                        appendFiles(fileOrder[i], req.MultipartFile[fileOrder[i]])])

\* Variant: the content type is compared as a whole
dispatchExact(contentType) ==
    IF contentType = JsonType THEN "Json"
    ELSE IF contentType = MultipartType \/ contentType = UrlEncodedType THEN "FormData"
    ELSE "Query"

\* the switch of Parse
dispatch(contentType) ==
    IF HasPrefix(contentType, JsonType) THEN "Json"
    ELSE IF HasPrefix(contentType, MultipartType)
            \/ HasPrefix(contentType, UrlEncodedType) THEN "FormData"
    ELSE "Query"

mapVars == <<mapQuery, pending, maps>>

helperVars == <<key, dotKey, vMap, collapsed, strValue, actual, replacer, calls,
               model, stack, entered, rest, unfixed>>

\* Parse(r): the switch on the Content-Type header
Parse ==
    /\ pc = "parse"
    /\ branch' = dispatch(request.ContentType)
    /\ pc' = branch'
    /\ UNCHANGED <<queries, request, err>>
    /\ UNCHANGED mapVars
    /\ UNCHANGED helperVars

\* Json(r): decode the body into a RequestValue; a nil result becomes an
\* empty map; the error of the decoder is returned
Json ==
    /\ pc = "Json"
    /\ maps' = IF request.Body.kind = "object" THEN request.Body.m ELSE EmptyMap
    /\ err' = IF request.Body.kind \in {"object", "null"} THEN Nil ELSE Error
    /\ pc' = "return"
    /\ UNCHANGED <<queries, mapQuery, pending, request, branch>>
    /\ UNCHANGED helperVars

\* FormData(r): the properties of the form, handed to mapValuesOf
FormData ==
    /\ pc = "FormData"
    /\ IF HasPrefix(request.ContentType, MultipartType)
       THEN IF request.FormErr THEN queries' = <<>>
            ELSE \E order \in Orders(DOMAIN request.MultipartValue),
                    fileOrder \in Orders(DOMAIN request.MultipartFile) :
                    queries' = parseMultipartForm(request, <<>>, order, fileOrder)
       ELSE IF request.FormErr THEN queries' = <<>>
            ELSE \E order \in Orders(DOMAIN request.PostForm) :
                    queries' = parseURLEncodedForm(request.PostForm, <<>>, order)
    /\ pc' = "call"
    /\ UNCHANGED <<request, branch, err>>
    /\ UNCHANGED mapVars
    /\ UNCHANGED helperVars

\* Query(r): the properties of the query string, handed to mapValuesOf
Query ==
    /\ pc = "Query"
    /\ \E order \in Orders(DOMAIN request.URL) :
            queries' = parseURLEncodedForm(request.URL, <<>>, order)
    /\ pc' = "call"
    /\ UNCHANGED <<request, branch, err>>
    /\ UNCHANGED mapVars
    /\ UNCHANGED helperVars

NextRequest == Parse \/ Json \/ FormData \/ Query \/ GroupKeys \/ RangeGroup \/ FixTypes

\* parameters of a content type
CharsetParam ==
    <<";", " ", "c", "h", "a", "r", "s", "e", "t", "=", "u", "t", "f",
      "-", "8">>

BoundaryParam ==
    <<";", " ", "b", "o", "u", "n", "d", "a", "r", "y", "=", "x">>

\* content types that name no parser, and near misses of the JSON prefix
TextType ==
    <<"t", "e", "x", "t", "/", "p", "l", "a", "i", "n">>

UpperJsonType ==
    <<"A", "p", "p", "l", "i", "c", "a", "t", "i", "o", "n", "/", "J",
      "S", "O", "N">>

ShortJsonType ==
    <<"a", "p", "p", "l", "i", "c", "a", "t", "i", "o", "n", "/", "j",
      "s", "o">>

ContentTypes == {
    <<>>,
    JsonType,
    JsonType \o CharsetParam,
    JsonType \o <<"l">>,
    <<" ">> \o JsonType,
    UpperJsonType,
    ShortJsonType,
    TextType,
    MultipartType \o BoundaryParam,
    UrlEncodedType,
    UrlEncodedType \o CharsetParam
}

\* what json.Decoder finds in the body: an object, the literal null, a value
\* of another type, a syntax error, or no body (io.EOF)
Bodies == {
    [kind |-> "object", m |-> (<<"n">> :> GoFloat64(FALSE, <<"7">>, 0))
                              @@ (<<"s">> :> Str(<<"7">>))],
    [kind |-> "null"],
    [kind |-> "array"],
    [kind |-> "syntax"],
    [kind |-> "empty"]
}

MaxFields == 2      \* most field names of a query string or form
MaxValues == 2      \* most values under one field name

FieldNames == {<<"t", "a", "g", "s">>, <<"n">>, <<"t", "a", "g", "s", "[", "1", "]">>, <<>>}

FieldValues == {<<"a">>, <<"7">>}

\* one or more values under a name
ValueLists == StringsUpTo(FieldValues, MaxValues) \ {<<>>}

\* url.Values over some names
UrlValues(names) ==
    UNION {[D -> ValueLists] : D \in {K \in SUBSET names : Cardinality(K) <= MaxFields}}

NoValues == [k \in {} |-> <<>>]

\* r.MultipartForm.File: one file, several files under a plain name, several
\* files under a bracketed name
FileMaps == {
    NoValues,
    (<<"f">> :> <<FileRef(1)>>),
    (<<"f">> :> <<FileRef(1), FileRef(2)>>),
    (<<"f", "[", "]">> :> <<FileRef(1), FileRef(2)>>)
}

Request(ct, body, url, post, mvalue, mfile, formErr) ==
    [ContentType |-> ct, Body |-> body, URL |-> url, PostForm |-> post,
     MultipartValue |-> mvalue, MultipartFile |-> mfile, FormErr |-> formErr]

\* r.PostForm is filled for a url-encoded body only, r.MultipartForm for a
\* multipart body only; a multipart part without a name is skipped by the
\* reader, so no multipart field has the empty name
RequestsOver(cts, bodies, urls, posts, mvalues, mfiles) ==
    {Request(ct, body, url, post, mvalue, mfile, formErr) :
        ct \in cts, body \in bodies, url \in urls,
        post \in posts, mvalue \in mvalues, mfile \in mfiles, formErr \in BOOLEAN}

EntryRequests ==
    RequestsOver({<<>>}, {[kind |-> "empty"]}, UrlValues(FieldNames),
                 {NoValues}, {NoValues}, {NoValues})
    \cup RequestsOver({UrlEncodedType}, {[kind |-> "empty"]}, {NoValues},
                      UrlValues(FieldNames), {NoValues}, {NoValues})
    \cup RequestsOver({MultipartType \o BoundaryParam}, {[kind |-> "empty"]}, {NoValues},
                      {NoValues}, UrlValues(FieldNames \ {<<>>}), FileMaps)

IdleHelpers ==
    /\ key = Unused
    /\ dotKey = Unused
    /\ vMap = EmptyMap
    /\ collapsed = Nil
    /\ strValue = Unused
    /\ actual = Nil
    /\ model = Unused
    /\ stack = <<>>
    /\ entered = 0
    /\ rest = <<>>
    /\ unfixed = EmptyMap
    /\ replacer = NewReplacer
    /\ calls = <<>>

\* Query(r) or FormData(r) called on a request
InitEntry ==
    /\ request \in EntryRequests
    /\ pc = IF request.ContentType = <<>> THEN "Query" ELSE "FormData"
    /\ branch = Unused
    /\ err = Nil
    /\ queries = <<>>
    /\ mapQuery = EmptyMap
    /\ pending = {}
    /\ maps = EmptyMap
    /\ IdleHelpers

NextEntry == FormData \/ Query \/ GroupKeys \/ RangeGroup \/ FixTypes

SpecEntry == InitEntry /\ [][NextEntry]_vars

SmallValues == {
    NoValues,
    (<<"n">> :> <<<<"7">>>>),
    (<<"t", "a", "g", "s">> :> <<<<"a">>, <<"7">>>>)
}

ParseRequests ==
    RequestsOver(ContentTypes, Bodies, SmallValues, {NoValues}, {NoValues}, {NoValues})
    \cup RequestsOver({UrlEncodedType, UrlEncodedType \o CharsetParam}, Bodies,
                      SmallValues, SmallValues, {NoValues}, {NoValues})
    \cup RequestsOver({MultipartType \o BoundaryParam}, Bodies, SmallValues,
                      {NoValues}, SmallValues, FileMaps)

\* Parse(r) called on a request
InitParse ==
    /\ request \in ParseRequests
    /\ pc = "parse"
    /\ branch = Unused
    /\ err = Nil
    /\ queries = <<>>
    /\ mapQuery = EmptyMap
    /\ pending = {}
    /\ maps = EmptyMap
    /\ IdleHelpers

SpecParse == InitParse /\ [][NextRequest]_vars

(***************************************************************************)
(* FormRequest.ToBind (form_request.go): the result of FormData bound to   *)
(* the struct the argument points to.  A struct is a function from field   *)
(* names to fields; a field carries its Go type, its json tag and its      *)
(* value.                                                                  *)
(***************************************************************************)
\* simple case folding of the letters that occur in field names
Fold(c) ==
    IF c = "F" THEN "f" ELSE IF c = "G" THEN "g" ELSE IF c = "N" THEN "n" ELSE c

\* strings.EqualFold(s, t)
EqualFold(s, t) == Len(s) = Len(t) /\ \A i \in 1..Len(s) : Fold(s[i]) = Fold(t[i])

StructField(type, tag, value) == [type |-> type, tag |-> tag, value |-> value]

\* a pointer to a struct
Struct(fields) == [kind |-> "struct", fields |-> fields]

\* reflect.TypeOf(value) for the values that reach the file loop
TypeOf(value) ==
    IF value.kind = "file" THEN "*multipart.FileHeader"
    ELSE IF value.kind = "files" THEN "FileHeaders"
    ELSE IF value.kind = "slice" THEN "[]interface{}"
    ELSE value.kind

\* the switch over r.result: a key goes to fileFields when its value is a
\* file, a FileHeaders, or a slice with such an item
isFileField(value) ==
    \/ value.kind \in {"file", "files"}
    \/ /\ value.kind = "slice"
       /\ \E i \in 1..Len(value.items) : value.items[i].kind \in {"file", "files"}

fileFields(result) ==
    [k \in {x \in DOMAIN result : isFileField(result[x])} |-> result[k]]

nonFileResult(result) ==
    [k \in {x \in DOMAIN result : ~isFileField(result[x])} |-> result[k]]

\* json.Unmarshal of one member of the marshalled object into a field of a
\* Go type: null fits every type and leaves the field alone, a JSON string
\* fits a string; a number, a boolean, an object or an array of scalars fits
\* none of string, *multipart.FileHeader and FileHeaders
jsonFits(type, v) ==
    \/ v.kind = "nil"
    \/ type = "string" /\ v.kind = "string"

\* the members of the object that encoding/json stores into the field
jsonMembers(data, field) == {k \in DOMAIN data : EqualFold(field.tag, k)}

\* json.Unmarshal(json.Marshal(data), model): the struct afterwards; a member
\* that does not fit is skipped and the decoder goes on
jsonUnmarshal(data, fields) ==
    [name \in DOMAIN fields |->
        LET ks == jsonMembers(data, fields[name])
        IN  IF ks = {} THEN fields[name]
            ELSE LET v == data[CHOOSE k \in ks : TRUE]
                 IN  IF jsonFits(fields[name].type, v) /\ v.kind # "nil"
                     THEN [fields[name] EXCEPT !.value = v]
                     ELSE fields[name]]

\* the error of json.Unmarshal: some member does not fit its field
jsonError(data, fields) ==
    \E name \in DOMAIN fields :
        \E k \in jsonMembers(data, fields[name]) : ~jsonFits(fields[name].type, data[k])

\* field.Type().AssignableTo(fieldValue.Type()): identical types, or identical
\* underlying types of which one is not a named type
AssignableTo(fieldType, valueType) ==
    \/ fieldType = valueType
    \/ {fieldType, valueType} = {"FileHeaders", "[]*multipart.FileHeader"}

\* the body of the loop over fileFields: the struct after one key
bindFile(fields, k, value) ==
    LET names == {n \in DOMAIN fields : EqualFold(n, k)}
    IN  IF names = {} THEN fields
        ELSE LET name  == CHOOSE n \in names : TRUE
                 field == fields[name]
                 set   == [fields EXCEPT ![name].value = value]
             IN  IF AssignableTo(field.type, TypeOf(value)) THEN set
                 ELSE IF field.type = "*multipart.FileHeader"
                 THEN (IF value.kind = "file" THEN set ELSE fields)
                 ELSE IF field.type = "FileHeaders"
                 THEN (IF value.kind = "files" THEN set ELSE fields)
                 ELSE fields

\* the loop over fileFields, its keys visited in order
RECURSIVE bindFiles(_, _, _)
bindFiles(fields, files, order) ==
    IF Len(order) = 0 THEN fields
    ELSE bindFiles(bindFile(fields, Head(order), files[Head(order)]), files, Tail(order))

\* r.ToBind(model) on the FormRequest that FormData returned
ToBind ==
    /\ pc = "return"
    /\ IF model.kind # "struct"
       THEN /\ err' = Error
            /\ model' = model
       ELSE LET data == nonFileResult(maps)
                decoded == jsonUnmarshal(data, model.fields)
            IN  IF DOMAIN data # {} /\ jsonError(data, model.fields)
                THEN /\ err' = Error
                     /\ model' = Struct(decoded)
                ELSE /\ err' = Nil
                     /\ \E order \in Orders(DOMAIN fileFields(maps)) :
                            model' = Struct(bindFiles(decoded, fileFields(maps), order))
    /\ pc' = "bound"
    /\ UNCHANGED <<queries, key, dotKey, vMap, collapsed, strValue, actual, replacer,
                   calls, request, branch, stack, entered, rest, unfixed>>
    /\ UNCHANGED mapVars

\* the struct of an upload handler: several files, one file, a title
UploadRequest ==
    Struct((<<"F">> :> StructField("FileHeaders", <<"f">>, Nil))
           @@ (<<"G">> :> StructField("*multipart.FileHeader", <<"g">>, Nil))
           @@ (<<"N">> :> StructField("string", <<"n">>, Str(<<>>))))

\* r.MultipartForm.File of an upload: files under the plain name, under the
\* name with an empty bracket group, and single files
UploadFiles == {
    NoValues,
    (<<"f">> :> <<FileRef(1), FileRef(2)>>),
    (<<"f", "[", "]">> :> <<FileRef(1), FileRef(2)>>),
    (<<"f", "[", "]">> :> <<FileRef(2), FileRef(1)>>),
    (<<"f", "[", "]">> :> <<FileRef(1)>>),
    (<<"g">> :> <<FileRef(1)>>) @@ (<<"f", "[", "]">> :> <<FileRef(2), FileRef(3)>>),
    (<<"g">> :> <<FileRef(1)>>) @@ (<<"f">> :> <<FileRef(2), FileRef(3)>>)
}

UploadNames == {<<"n">>, <<"t">>}

UploadRequests ==
    RequestsOver({MultipartType \o BoundaryParam}, {[kind |-> "empty"]}, {NoValues},
                 {NoValues}, UrlValues(UploadNames), UploadFiles)

\* FormData(r).ToBind(&upload), upload a zero UploadRequest or model not a
\* pointer to a struct
InitBind ==
    /\ request \in UploadRequests
    /\ model \in {UploadRequest, Nil}
    /\ stack = <<>>
    /\ entered = 0
    /\ rest = <<>>
    /\ unfixed = EmptyMap
    /\ pc = "FormData"
    /\ branch = Unused
    /\ err = Nil
    /\ queries = <<>>
    /\ mapQuery = EmptyMap
    /\ pending = {}
    /\ maps = EmptyMap
    /\ key = Unused
    /\ dotKey = Unused
    /\ vMap = EmptyMap
    /\ collapsed = Nil
    /\ strValue = Unused
    /\ actual = Nil
    /\ replacer = NewReplacer
    /\ calls = <<>>

NextBind == FormData \/ GroupKeys \/ RangeGroup \/ FixTypes \/ ToBind

SpecBind == InitBind /\ [][NextBind]_vars

(***************************************************************************)
(* The post-order walk run a second time on the tree mapValuesOf returned. *)
(***************************************************************************)
\* fixValueToActualType(&maps) on the returned tree
FixAgain ==
    /\ pc = "return"
    /\ LET r == fixValueToActualType(maps)
       IN  IF r.kind = "panic"
           THEN pc' = "panic" /\ maps' = maps
           ELSE pc' = "fixed" /\ maps' = r.m
    /\ UNCHANGED <<queries, mapQuery, pending, key, dotKey, vMap, collapsed>>
    /\ UNCHANGED otherVars

\* paths that give arrays, objects below arrays, objects and scalars
RewalkPaths == {
    <<"u", "[", "0", "]">>,
    <<"u", "[", "1", "]", "[", "c", "]">>,
    <<"u", "[", "a", "]">>,
    <<"d">>
}

\* strings that stay strings after coercion, and strings that do not
RewalkValues == {
    Str(<<"0", "0", "7">>),
    Str(<<"T", "r", "u", "e">>),
    Str(<<"7">>),
    Str(<<"t", "r", "u", "e">>)
}

RewalkProperties == {Property(p, v) : p \in RewalkPaths, v \in RewalkValues}

InitRewalk ==
    /\ pc = "call"
    /\ queries \in StringsUpTo(RewalkProperties, MaxProps)
    /\ mapQuery = EmptyMap
    /\ pending = {}
    /\ maps = EmptyMap
    /\ key = Unused
    /\ dotKey = Unused
    /\ vMap = EmptyMap
    /\ collapsed = Nil
    /\ IdleOthers

NextRewalk == GroupKeys \/ RangeGroup \/ FixTypes \/ FixAgain

\* the strings and arrays of InitRewalk, or the typed values and
\* non-canonical indices of InitTyped
SpecRewalk == (InitRewalk \/ InitTyped) /\ [][NextRewalk]_vars

(***************************************************************************)
(* mapValuesOf step by step: every call of transformDotPathToMap and of    *)
(* fixValueToActualType is a frame on the call stack.  A frame holds the   *)
(* location of its target map below maps (Go maps are references, so a     *)
(* nested call writes into the tree of its caller), its arguments and its  *)
(* position in the body.                                                   *)
(***************************************************************************)
MaxStepProps == 2   \* most properties of a call that is followed step by step
MaxDepth == 6       \* most frames on the call stack

Frame(fn, at, dotPath, value, todo, cur, phase) ==
    [fn |-> fn, at |-> at, dotPath |-> dotPath, value |-> value, todo |-> todo,
     cur |-> cur, phase |-> phase]

\* the map t that a frame reaches: *target
RECURSIVE MapAt(_, _)
MapAt(t, at) == IF Len(at) = 0 THEN t ELSE MapAt(t[Head(at)].m, Tail(at))

\* the tree after the map at a location has become m
RECURSIVE PutAt(_, _, _)
PutAt(t, at, m) ==
    IF Len(at) = 0 THEN m
    ELSE MapSet(t, Head(at), Map(PutAt(t[Head(at)].m, Tail(at), m)))

Top == stack[Len(stack)]

Caller == SubSeq(stack, 1, Len(stack) - 1)

Returning == Append(Caller, [Top EXCEPT !.phase = "returning"])

\* Variant: the nested call receives the whole path again
nestedPathWhole(paths) == Join(paths)

\* strings.Join(paths[1:], "."), the path handed to the nested call
nestedPath(paths) == Join(Tail(paths))

stepFrame ==
    <<queries, mapQuery, key, dotKey, vMap, collapsed, strValue, actual, replacer,
      calls, request, branch, err, model>>

\* for key, query := range mapQuery: the next key, in any order
NextGroup ==
    /\ pc = "range"
    /\ stack = <<>>
    /\ rest = <<>>
    /\ \E k \in pending :
        /\ maps' = IF k \notin DOMAIN maps THEN MapSet(maps, k, Map(EmptyMap)) ELSE maps
        /\ rest' = mapQuery[k]
        /\ pending' = pending \ {k}
    /\ UNCHANGED <<pc, stack, entered, unfixed>>
    /\ UNCHANGED stepFrame

\* for _, v := range query: transformDotPathToMap(&maps, v.Path, v.Value)
InsertCall ==
    /\ pc = "range"
    /\ stack = <<>>
    /\ rest # <<>>
    /\ stack' = <<Frame("transformDotPathToMap", <<>>, Head(rest).Path, Head(rest).Value,
                        {}, Unused, "entry")>>
    /\ entered' = 1
    /\ rest' = Tail(rest)
    /\ UNCHANGED <<pc, pending, maps, unfixed>>
    /\ UNCHANGED stepFrame

\* the body of transformDotPathToMap up to its return or its nested call
InsertBody ==
    /\ pc = "range"
    /\ stack # <<>>
    /\ Top.phase = "entry"
    /\ LET t     == MapAt(maps, Top.at)
           paths == Split(Top.dotPath)
       IN  IF Len(paths) = 1
           THEN /\ maps' = PutAt(maps, Top.at, MapSet(t, Top.dotPath, Top.value))
                /\ stack' = Returning
                /\ entered' = entered
           ELSE LET t1 == IF paths[1] \notin DOMAIN t
                          THEN MapSet(t, paths[1], Map(EmptyMap))
                          ELSE t
                    t2 == MapDelete(t1, Top.dotPath)
                IN  /\ maps' = PutAt(maps, Top.at, t2)
                    /\ IF t2[paths[1]].kind = "map"
                       THEN /\ Len(stack) < MaxDepth
                            /\ stack' = Append(Returning,
                                    Frame("transformDotPathToMap",
                                          Append(Top.at, paths[1]), nestedPath(paths),
                                          Top.value, {}, Unused, "entry"))
                            /\ entered' = entered + 1
                       ELSE /\ stack' = Returning
                            /\ entered' = entered
    /\ UNCHANGED <<pc, pending, rest, unfixed>>
    /\ UNCHANGED stepFrame

\* transformDotPathToMap returns to its caller
InsertReturn ==
    /\ pc = "range"
    /\ stack # <<>>
    /\ Top.phase = "returning"
    /\ stack' = Caller
    /\ UNCHANGED <<pc, pending, maps, entered, rest, unfixed>>
    /\ UNCHANGED stepFrame

\* fixValueToActualType(&maps), after the loop over mapQuery
WalkCall ==
    /\ pc = "range"
    /\ stack = <<>>
    /\ rest = <<>>
    /\ pending = {}
    /\ pc' = "walk"
    /\ stack' = <<Frame("fixValueToActualType", <<>>, Unused, Nil, DOMAIN maps,
                        Unused, "entry")>>
    /\ entered' = 1
    /\ unfixed' = maps
    /\ UNCHANGED <<pending, maps, rest>>
    /\ UNCHANGED stepFrame

\* one iteration of `for keyT, v := range t`, up to the nested call if v is a
\* RequestValue
WalkVisit ==
    /\ pc = "walk"
    /\ \E k \in Top.todo :
        LET t    == MapAt(maps, Top.at)
            v    == t[k]
            done == [Top EXCEPT !.todo = Top.todo \ {k}]
        IN  IF v.kind = "map"
            THEN /\ Len(stack) < MaxDepth
                 /\ stack' = Append(Append(Caller, [done EXCEPT !.cur = k]),
                                    Frame("fixValueToActualType", Append(Top.at, k),
                                          Unused, Nil, DOMAIN v.m, Unused, "entry"))
                 /\ entered' = entered + 1
                 /\ maps' = maps
            ELSE /\ stack' = Append(Caller, done)
                 /\ entered' = entered
                 /\ maps' = IF v.kind = "string"
                            THEN PutAt(maps, Top.at,
                                       MapSet(t, k, convertStringToActualType(v.s)))
                            ELSE maps
    /\ UNCHANGED <<pc, pending, rest, unfixed>>
    /\ UNCHANGED stepFrame

\* fixValueToActualType returns: to mapValuesOf, or to the iteration that
\* called it, which stores convertMapToSliceIfNumericKeys(vMap) under keyT
WalkReturn ==
    /\ pc = "walk"
    /\ Top.todo = {}
    /\ IF Len(stack) = 1
       THEN /\ pc' = "return"
            /\ stack' = <<>>
            /\ maps' = maps
       ELSE LET parent == stack[Len(stack) - 1]
                c      == convertMapToSliceIfNumericKeys(MapAt(maps, Top.at))
            IN  IF c.kind = "panic"
                THEN /\ pc' = "panic"
                     /\ stack' = <<>>
                     /\ maps' = maps
                ELSE /\ pc' = pc
                     /\ stack' = Caller
                     /\ maps' = PutAt(maps, parent.at,
                                      MapSet(MapAt(maps, parent.at), parent.cur, c))
    /\ UNCHANGED <<pending, entered, rest, unfixed>>
    /\ UNCHANGED stepFrame

\* paths of one, two and three segments, an index, a negative index, and an
\* object below an index
StepPaths == {
    <<"a">>,
    <<"a", "[", "b", "]">>,
    <<"a", ".", "b", ".", "c">>,
    <<"a", "[", "0", "]">>,
    <<"a", "[", "-", "1", "]">>,
    <<"b", "[", "1", "]", "[", "c", "]">>
}

\* termination does not depend on the values: one string that is coerced
StepProperties == {Property(p, Str(<<"7">>)) : p \in StepPaths}

InitSteps ==
    /\ pc = "call"
    /\ queries \in StringsUpTo(StepProperties, MaxStepProps)
    /\ mapQuery = EmptyMap
    /\ pending = {}
    /\ maps = EmptyMap
    /\ key = Unused
    /\ dotKey = Unused
    /\ vMap = EmptyMap
    /\ collapsed = Nil
    /\ IdleOthers

NextSteps ==
    \/ GroupKeys
    \/ NextGroup
    \/ InsertCall
    \/ InsertBody
    \/ InsertReturn
    \/ WalkCall
    \/ WalkVisit
    \/ WalkReturn

SpecSteps == InitSteps /\ [][NextSteps]_vars

\* the goroutine that runs mapValuesOf is never suspended for ever
SpecStepsFair == SpecSteps /\ WF_vars(NextSteps)

(***************************************************************************)
(* mapValuesOf on paths that collide at different structural types: a      *)
(* value at p and a value below p, for p a top-level key, an object key,   *)
(* an index and an index written with a leading zero.                      *)
(***************************************************************************)
CollidePaths == {
    <<"a">>,
    <<"a", "[", "b", "]">>,
    <<"a", "[", "b", "]", "[", "c", "]">>,
    <<"a", "[", "0", "]">>,
    <<"a", "[", "0", "]", "[", "b", "]">>,
    <<"a", "[", "0", "1", "]">>,
    <<"a", "[", "0", "1", "]", "[", "b", "]">>
}

CollideProperties == {Property(p, v) : p \in CollidePaths, v \in Values}

InitCollide ==
    /\ pc = "call"
    /\ queries \in StringsUpTo(CollideProperties, MaxProps)
    /\ mapQuery = EmptyMap
    /\ pending = {}
    /\ maps = EmptyMap
    /\ key = Unused
    /\ dotKey = Unused
    /\ vMap = EmptyMap
    /\ collapsed = Nil
    /\ IdleOthers

SpecCollide == InitCollide /\ [][Next]_vars

(***************************************************************************)
(* Query and FormData on names that carry a bracket group and several      *)
(* values, next to a plain name.                                           *)
(***************************************************************************)
BracketNames ==
    {<<"t", "a", "g", "s", "[", "]">>, <<"t", "a", "g", "s", "[", "1", "]">>, <<"n">>}

BracketRequests ==
    RequestsOver({<<>>}, {[kind |-> "empty"]}, UrlValues(BracketNames),
                 {NoValues}, {NoValues}, {NoValues})
    \cup RequestsOver({UrlEncodedType}, {[kind |-> "empty"]}, {NoValues},
                      UrlValues(BracketNames), {NoValues}, {NoValues})
    \cup RequestsOver({MultipartType \o BoundaryParam}, {[kind |-> "empty"]}, {NoValues},
                      {NoValues}, UrlValues(BracketNames), {NoValues})

InitBracket ==
    /\ request \in BracketRequests
    /\ pc = IF request.ContentType = <<>> THEN "Query" ELSE "FormData"
    /\ branch = Unused
    /\ err = Nil
    /\ queries = <<>>
    /\ mapQuery = EmptyMap
    /\ pending = {}
    /\ maps = EmptyMap
    /\ IdleHelpers

SpecBracket == InitBracket /\ [][NextEntry]_vars

(***************************************************************************)
(* mapValuesOf on paths whose top-level keys are digit strings, canonical  *)
(* or not, with and without segments below them.                           *)
(***************************************************************************)
RootPaths == {
    <<"0">>,
    <<"2">>,
    <<"0", "1">>,
    <<"[", "0", "]", "[", "t", "o", "]">>,
    <<"[", "1", "]", "[", "0", "]">>,
    <<"a">>
}

RootProperties == {Property(p, v) : p \in RootPaths, v \in Values}

InitRoot ==
    /\ pc = "call"
    /\ queries \in StringsUpTo(RootProperties, MaxProps)
    /\ mapQuery = EmptyMap
    /\ pending = {}
    /\ maps = EmptyMap
    /\ key = Unused
    /\ dotKey = Unused
    /\ vMap = EmptyMap
    /\ collapsed = Nil
    /\ IdleOthers

SpecRoot == InitRoot /\ [][Next]_vars

(***************************************************************************)
(* Reading a result.                                                       *)
(***************************************************************************)
Absent == [kind |-> "absent"]

\* the value a tree holds at a segment path; an index into a sequence is the
\* integer its segment writes
RECURSIVE Lookup(_, _)
Lookup(node, segs) ==
    IF Len(segs) = 0 THEN node
    ELSE IF node.kind = "map"
    THEN (IF Head(segs) \in DOMAIN node.m
          THEN Lookup(node.m[Head(segs)], Tail(segs)) ELSE Absent)
    ELSE IF node.kind = "slice"
    THEN (IF AtoiOk(Head(segs)) /\ AtoiVal(Head(segs)) >= 0
                /\ AtoiVal(Head(segs)) < Len(node.items)
          THEN Lookup(node.items[AtoiVal(Head(segs)) + 1], Tail(segs)) ELSE Absent)
    ELSE Absent

\* the translated path of the i-th input property
DotPathOf(i) == replaceBracketKeyIntoDotKey(queries[i].Path)

\* the segments of the translated path of the i-th input property
SegmentsOf(i) == Split(DotPathOf(i))

\* the coerced value of the i-th input property (a raw string)
CoercedOf(i) == convertStringToActualType(queries[i].Value.s)

\* a key that parses as an integer that is not negative
ParsesNonNegative(k) == AtoiOk(k) /\ AtoiVal(k) >= 0

\* a key with an alphabetic character
Letters == {"a", "b", "t", "o", "i"}

HasLetter(k) == \E i \in 1..Len(k) : k[i] \in Letters

\* s is a prefix of t, or equal to it
IsPrefix(s, t) == Len(s) <= Len(t) /\ SubSeq(t, 1, Len(s)) = s

\* the segment paths that end at a leaf of a tree: at a value that is not a
\* mapping, or at a mapping without keys
RECURSIVE LeafPaths(_)
LeafPaths(node) ==
    IF node.kind = "map" /\ DOMAIN node.m # {}
    THEN UNION {{<<k>> \o p : p \in LeafPaths(node.m[k])} : k \in DOMAIN node.m}
    ELSE {<<>>}

\* the translated paths of the input are pairwise distinct, none is a
\* segment-prefix of another, and no segment parses as an integer
DisjointObjectPaths ==
    /\ \A i, j \in 1..Len(queries) : i # j => ~IsPrefix(SegmentsOf(i), SegmentsOf(j))
    /\ \A i \in 1..Len(queries) :
            \A h \in 1..Len(SegmentsOf(i)) : ~AtoiOk(SegmentsOf(i)[h])

\* nothing is left to coerce or to collapse in a value, at any depth: no
\* string the Type Coercer would change, and no mapping with a non-empty key
\* set of which every key parses as an integer
RECURSIVE FullyFixed(_)
FullyFixed(node) ==
    IF node.kind = "string" THEN convertStringToActualType(node.s) = node
    ELSE IF node.kind = "map"
    THEN /\ ~(DOMAIN node.m # {} /\ \A k \in DOMAIN node.m : AtoiOk(k))
         /\ \A k \in DOMAIN node.m : FullyFixed(node.m[k])
    ELSE IF node.kind = "slice"
    THEN \A j \in 1..Len(node.items) : FullyFixed(node.items[j])
    ELSE TRUE

True == <<"t", "r", "u", "e">>
False == <<"f", "a", "l", "s", "e">>

\* a string the leading-zero rule keeps: longer than one character, first
\* character '0', second character not '.'
LeadingZero(s) == Len(s) > 1 /\ s[1] = "0" /\ s[2] # "."

IsInteger(v) == v.kind \in {"int", "int64"}

\* a base-10 integer string: an optional sign, then one or more digits
IntegerString(s) == Len(Unsigned(s)) >= 1 /\ AllDigits(Unsigned(s))

\* its magnitude, as digits without leading zeros, and its sign
Magnitude(s) == StripZeros(Unsigned(s))

Negative(s) == s[1] = "-" /\ Magnitude(s) # <<"0">>

\* its value lies in [-2^31, 2^31 - 1], in [-2^63, 2^63 - 1]
InInt32(s) ==
    DigitsLeq(Magnitude(s), IF Negative(s) THEN MinInt32Digits ELSE MaxInt32Digits)

InInt64(s) ==
    DigitsLeq(Magnitude(s), IF Negative(s) THEN MinInt64Digits ELSE MaxInt64Digits)

\* no other property of the input is written at, above or below the segment
\* path of the i-th
ConflictFree(i) ==
    \A j \in 1..Len(queries) :
        j # i => /\ ~IsPrefix(SegmentsOf(i), SegmentsOf(j))
                 /\ ~IsPrefix(SegmentsOf(j), SegmentsOf(i))

Null == <<"n", "u", "l", "l">>

\* what mapValuesOf returns for q when no other call runs: Map(tree), or Panic
Alone(q) ==
    LET mq == groupMapKey(q)
        RECURSIVE Range(_, _)
        Range(t, ks) ==
            IF ks = {} THEN t
            ELSE LET k == CHOOSE x \in ks : TRUE
                 IN  Range(rangeGroup(t, k, mq[k]), ks \ {k})
    IN  fixValueToActualType(Range(EmptyMap, DOMAIN mq))

\* the top-level segment a field name resolves under
TopSegment(name) == Split(replaceBracketKeyIntoDotKey(name))[1]

\* the values Query or FormData reads from the request, and the names of
\* all its fields
FieldsRead ==
    IF request.ContentType = <<>> THEN request.URL
    ELSE IF HasPrefix(request.ContentType, MultipartType) THEN request.MultipartValue
    ELSE request.PostForm

NamesRead ==
    DOMAIN FieldsRead
        \cup (IF HasPrefix(request.ContentType, MultipartType)
              THEN DOMAIN request.MultipartFile ELSE {})

\* number of mapping nodes of a tree, the root included
RECURSIVE MapNodes(_)
RECURSIVE MapNodesBelow(_, _)
MapNodesBelow(t, keys) ==
    IF keys = {} THEN 0
    ELSE LET k == CHOOSE x \in keys : TRUE
         IN  (IF t[k].kind = "map" THEN MapNodes(t[k].m) ELSE 0)
                + MapNodesBelow(t, keys \ {k})

MapNodes(t) == 1 + MapNodesBelow(t, DOMAIN t)

\* number of dot-segments of a path
SegmentCount(dotPath) == Len(Split(dotPath))

\* the step-by-step walk computes what fixValueToActualType computes
StepsAgree ==
    /\ pc = "return" => fixValueToActualType(unfixed) = Map(maps)
    /\ pc = "panic" => fixValueToActualType(unfixed) = Panic

\* s is a proper prefix of t
Below(s, t) == Len(s) < Len(t) /\ SubSeq(t, 1, Len(s)) = s

\* the i-th property is the last one written at its path, some property
\* writes below that path, and none writes above it
ScalarCollision(i) ==
    /\ \A l \in (i + 1)..Len(queries) : SegmentsOf(l) # SegmentsOf(i)
    /\ \E j \in 1..Len(queries) : Below(SegmentsOf(i), SegmentsOf(j))
    /\ \A k \in 1..Len(queries) : ~Below(SegmentsOf(k), SegmentsOf(i))

\* no segment of the i-th path is an index in another spelling than Itoa's
Canonical(i) ==
    \A n \in 1..Len(SegmentsOf(i)) :
        AtoiOk(SegmentsOf(i)[n]) => Itoa(AtoiVal(SegmentsOf(i)[n])) = SegmentsOf(i)[n]

\* the properties Query or FormData hands to mapValuesOf when the range loops
\* visit the value names and the file names in the given orders
PropertiesOf(req, order, fileOrder) ==
    IF req.FormErr /\ req.ContentType # <<>> THEN <<>>
    ELSE IF req.ContentType = <<>>
    THEN parseURLEncodedForm(req.URL, <<>>, order)
    ELSE IF HasPrefix(req.ContentType, MultipartType)
    THEN parseMultipartForm(req, <<>>, order, fileOrder)
    ELSE parseURLEncodedForm(req.PostForm, <<>>, order)

PropertiesRead(order, fileOrder) == PropertiesOf(request, order, fileOrder)

\* url.Values with only the first value under every name that contains '['
FirstValues(values) ==
    [k \in DOMAIN values |->
        IF Contains(k, "[") THEN <<values[k][1]>> ELSE values[k]]

\* the request without the further values of such names
FirstValuesOnly(req) ==
    [req EXCEPT !.URL = FirstValues(req.URL),
                !.PostForm = FirstValues(req.PostForm),
                !.MultipartValue = FirstValues(req.MultipartValue)]

\* the file names FormData reads from the request
FilesRead ==
    IF HasPrefix(request.ContentType, MultipartType)
    THEN DOMAIN request.MultipartFile ELSE {}

\* the sequence q with its elements i and i + 1 exchanged
Swap(q, i) ==
    [n \in 1..Len(q) |-> IF n = i THEN q[i + 1] ELSE IF n = i + 1 THEN q[i] ELSE q[n]]

\* positions of adjacent input properties that belong to different groups
SwapPositions ==
    {i \in 1..(Len(queries) - 1) : SegmentsOf(i)[1] # SegmentsOf(i + 1)[1]}

\* what mapValuesOf has produced: the returned tree, or the panic
Outcome == IF pc = "panic" THEN Panic ELSE Map(maps)

\* the decimal rendering of an int or int64 (strconv.FormatInt(n, 10))
Rendering(v) == IF v.neg THEN <<"-">> \o v.digits ELSE v.digits

(***************************************************************************)
(* C1.  Sparse arrays: materializing the properties k[i], i in S, given in *)
(* any order, yields under k a sequence of length max(S)+1 that holds at   *)
(* position i the coerced value of k[i] for i in S and null elsewhere.     *)
(***************************************************************************)
C1_SparseArray ==
    pc = "return" =>
        \A k \in SparseKeys :
            (\A j \in 1..Len(queries) :
                \E i \in SparseIndices : queries[j].Path = buildIndexedPath(k, i))
            =>
            LET IndexAt(j) == CHOOSE i \in SparseIndices :
                                    queries[j].Path = buildIndexedPath(k, i)
                S == {IndexAt(j) : j \in 1..Len(queries)}
            IN  /\ k \in DOMAIN maps
                /\ maps[k].kind = "slice"
                /\ Len(maps[k].items) = SetMax(S) + 1
                /\ \A j \in 1..Len(queries) :
                        maps[k].items[IndexAt(j) + 1] = CoercedOf(j)
                /\ \A i \in 0..SetMax(S) : i \notin S => maps[k].items[i + 1] = Nil

\* three properties, out of order, leaving gaps, and a two-digit index
C1_Witness ==
    /\ pc = "return"
    /\ Len(queries) = 3
    /\ queries[1].Path = buildIndexedPath(<<"i", "t">>, 10)
    /\ queries[2].Path = buildIndexedPath(<<"i", "t">>, 0)
    /\ queries[3].Path = buildIndexedPath(<<"i", "t">>, 3)
    /\ Len(maps[<<"i", "t">>].items) = 11
    /\ maps[<<"i", "t">>].items[2] = Nil

(***************************************************************************)
(* C2.  mapValuesOf is total: for every property sequence, whatever its    *)
(* paths, it returns a tree and never panics.                              *)
(***************************************************************************)
C2_NeverPanics == pc # "panic"

(***************************************************************************)
(* C3.  Of two properties colliding at different structural types, one at  *)
(* x and one at x.y, the later wins entirely, in both orders: x then x.y   *)
(* leaves a mapping at x that contains y; x.y then x leaves the scalar.    *)
(***************************************************************************)
C3_LaterWinsBothOrders ==
    (pc = "return" /\ Len(queries) = 2) =>
        LET s1 == SegmentsOf(1)
            s2 == SegmentsOf(2)
        IN  /\ (Len(s2) = Len(s1) + 1 /\ SubSeq(s2, 1, Len(s1)) = s1)
                    => Lookup(Map(maps), s2) = CoercedOf(2)
            /\ (Len(s1) = Len(s2) + 1 /\ SubSeq(s1, 1, Len(s2)) = s2)
                    => Lookup(Map(maps), s2) = CoercedOf(2)

(***************************************************************************)
(* C4.  Last-write-wins on equal paths: when several properties translate  *)
(* to the same dot path, the result holds at that path the coerced value   *)
(* of the last of them.                                                    *)
(***************************************************************************)
C4_LastWriteWins ==
    pc = "return" =>
        \A j \in 1..Len(queries) :
            ((\E i \in 1..(j - 1) : SegmentsOf(i) = SegmentsOf(j))
                /\ (\A l \in (j + 1)..Len(queries) : SegmentsOf(l) # SegmentsOf(j)))
            => Lookup(Map(maps), SegmentsOf(j)) = CoercedOf(j)

(***************************************************************************)
(* C5.  The Array Collapser returns its input mapping unchanged whenever   *)
(* the mapping is empty or one of its keys does not parse as a             *)
(* non-negative base-10 integer.                                           *)
(***************************************************************************)
C5_UnchangedUnlessAllNonNegative ==
    (pc \in {"collapsed", "collapse-panic"}
        /\ (DOMAIN vMap = {} \/ \E k \in DOMAIN vMap : ~ParsesNonNegative(k)))
    => collapsed = Map(vMap)

(***************************************************************************)
(* C6.  A mapping with a key that contains a letter stays a mapping, with  *)
(* every key and value, even when other keys are numeric; the subtree      *)
(* built from a[0] and a[b] is a mapping with the keys "0" and "b".        *)
(***************************************************************************)
C6_MixedKeysStayMapping ==
    /\ (pc \in {"collapsed", "collapse-panic"}
            /\ \E k \in DOMAIN vMap : HasLetter(k))
        => collapsed = Map(vMap)
    /\ (pc = "return"
            /\ Len(queries) >= 2
            /\ {SegmentsOf(j) : j \in 1..Len(queries)}
                    = {<<<<"a">>, <<"0">>>>, <<<<"a">>, <<"b">>>>})
        => /\ maps[<<"a">>].kind = "map"
           /\ DOMAIN maps[<<"a">>].m = {<<"0">>, <<"b">>}

C6_Witness ==
    /\ pc = "return"
    /\ Len(queries) = 2
    /\ queries[1].Path = <<"a", "[", "0", "]">>
    /\ queries[2].Path = <<"a", "[", "b", "]">>
    /\ maps[<<"a">>].kind = "map"

(***************************************************************************)
(* C7.  For every input string the output of the Path Translator contains  *)
(* no '[' and no ']' and neither starts nor ends with '.'.                 *)
(***************************************************************************)
C7_NoBracketsNoOuterDots ==
    pc = "translated" =>
        /\ ~ContainsAny(dotKey, {"[", "]"})
        /\ (Len(dotKey) > 0 => dotKey[1] # "." /\ dotKey[Len(dotKey)] # ".")

(***************************************************************************)
(* C8.  The Path Translator equals its reference: an input without         *)
(* brackets is returned unchanged, and base[k1]...[kn] (base possibly      *)
(* empty) is returned as its segments joined by single dots.               *)
(***************************************************************************)
C8_TranslatorReference ==
    pc = "translated" =>
        /\ (\A i \in 1..Len(key) : key[i] \notin {"[", "]"}) => dotKey = key
        /\ \A base \in Segments \cup {<<>>} :
            \A ks \in StringsUpTo(Segments, MaxGroups) :
                key = Bracketed(base, ks)
                    => dotKey = Join((IF base = <<>> THEN <<>> ELSE <<base>>) \o ks)

C8_Witness ==
    /\ pc = "translated"
    /\ key = <<"[", "0", "]", "[", "t", "o", "]">>
    /\ dotKey = <<"0", ".", "t", "o">>

(***************************************************************************)
(* C9.  The Grouper partitions the input: each group, keyed by the first   *)
(* dot-segment, lists exactly the properties with that first segment, in   *)
(* input order, with the path in dot form and the value unchanged; every   *)
(* property is in the group of its first segment; no group is empty.       *)
(***************************************************************************)
C9_GrouperPartitions ==
    pc \in {"range", "return", "panic"} =>
        LET translated == [i \in 1..Len(queries) |->
                             Property(DotPathOf(i), queries[i].Value)]
        IN  /\ \A i \in 1..Len(queries) : SegmentsOf(i)[1] \in DOMAIN mapQuery
            /\ \A k \in DOMAIN mapQuery :
                LET InGroup(p) == Split(p.Path)[1] = k
                IN  /\ mapQuery[k] = SelectSeq(translated, InGroup)
                    /\ Len(mapQuery[k]) > 0

\* two groups, one of them with two properties, one path given in brackets
C9_Witness ==
    /\ pc = "range"
    /\ Cardinality(DOMAIN mapQuery) = 2
    /\ \E k \in DOMAIN mapQuery : Len(mapQuery[k]) = 2
    /\ \E i \in 1..Len(queries) : DotPathOf(i) # queries[i].Path

(***************************************************************************)
(* C10.  The top-level keys of a returned tree are exactly the first       *)
(* dot-segments of the translated input paths.                             *)
(***************************************************************************)
C10_TopLevelKeys ==
    pc = "return" =>
        DOMAIN maps = {SegmentsOf(i)[1] : i \in 1..Len(queries)}

C10_Witness ==
    /\ pc = "return"
    /\ Len(queries) = 3
    /\ Cardinality(DOMAIN maps) = 3


(***************************************************************************)
(* C11.  For every property sequence whose translated paths are pairwise   *)
(* distinct, none a segment-prefix of another, and whose segments are all  *)
(* non-numeric, mapValuesOf returns a tree that holds at each property's   *)
(* segment path the coerced value of that property, in which every node    *)
(* above such a path is a mapping, and that has no other leaves.           *)
(***************************************************************************)
C11_NestedObjects ==
    DisjointObjectPaths =>
        /\ pc # "panic"
        /\ pc = "return" =>
            /\ \A i \in 1..Len(queries) :
                /\ Lookup(Map(maps), SegmentsOf(i)) = CoercedOf(i)
                /\ \A h \in 0..(Len(SegmentsOf(i)) - 1) :
                        Lookup(Map(maps), SubSeq(SegmentsOf(i), 1, h)).kind = "map"
            /\ Len(queries) > 0 =>
                    LeafPaths(Map(maps)) = {SegmentsOf(i) : i \in 1..Len(queries)}
            /\ Len(queries) = 0 => maps = EmptyMap

\* u[n] and u[a][c] under one top-level key, and a single-segment path
C11_Witness ==
    /\ pc = "return"
    /\ DisjointObjectPaths
    /\ Len(queries) = 3
    /\ queries[1] = Property(<<"u", "[", "n", "]">>, Str(<<"x">>))
    /\ queries[2] = Property(<<"u", "[", "a", "]", "[", "c", "]">>, Str(<<"7">>))
    /\ queries[3] = Property(<<"d">>, Str(<<"7">>))
    /\ maps = (<<"u">> :> Map((<<"n">> :> Str(<<"x">>))
                    @@ (<<"a">> :> Map(<<"c">> :> GoInt(FALSE, <<"7">>)))))
               @@ (<<"d">> :> GoInt(FALSE, <<"7">>))

(***************************************************************************)
(* C12.  Coercion and collapse reach every level: in every tree mapValuesOf *)
(* returns for string-valued properties, at any depth and also inside      *)
(* sequences, no string leaf is left that the Type Coercer would change,   *)
(* and no mapping below the root is left whose key set is non-empty and    *)
(* all-numeric.                                                            *)
(***************************************************************************)
C12_FixedAtEveryLevel ==
    pc = "return" => \A k \in DOMAIN maps : FullyFixed(maps[k])

\* u[0][1] = "7": a sequence inside a sequence, with the integer at depth 3
C12_Witness ==
    /\ pc = "return"
    /\ queries = <<Property(<<"u", "[", "0", "]", "[", "1", "]">>, Str(<<"7">>))>>
    /\ maps = (<<"u">> :> Slice(<<Slice(<<Nil, GoInt(FALSE, <<"7">>)>>)>>))

(***************************************************************************)
(* C13.  The Type Coercer agrees with the ordered rules for every string:  *)
(* "" is returned as ""; exactly "true" and "false" become booleans; a     *)
(* string containing '.' that parses as a number becomes a float; a string *)
(* without '.' that parses as a base-10 integer becomes an integer; every  *)
(* other string is returned unchanged; there is no error outcome.          *)
(***************************************************************************)
C13_OrderedRules ==
    pc = "coerced" =>
        /\ actual.kind # "panic"
        /\ IF strValue = <<>> THEN actual = Str(<<>>)
           ELSE IF strValue = True THEN actual = Bool(TRUE)
           ELSE IF strValue = False THEN actual = Bool(FALSE)
           ELSE IF Contains(strValue, ".") /\ ParseFloatOk(strValue)
           THEN actual.kind = "float64"
           ELSE IF ~Contains(strValue, ".") /\ ParseIntOk(strValue)
           THEN IsInteger(actual)
           ELSE actual = Str(strValue)

\* C13, amended: the same rules with the leading-zero rule in its place,
\* after the booleans and before the numbers: a string longer than one
\* character that starts with '0' not followed by '.' is returned unchanged.
C13_OrderedRulesWithLeadingZero ==
    pc = "coerced" =>
        /\ actual.kind # "panic"
        /\ IF strValue = <<>> THEN actual = Str(<<>>)
           ELSE IF strValue = True THEN actual = Bool(TRUE)
           ELSE IF strValue = False THEN actual = Bool(FALSE)
           ELSE IF LeadingZero(strValue) THEN actual = Str(strValue)
           ELSE IF Contains(strValue, ".") /\ ParseFloatOk(strValue)
           THEN actual.kind = "float64" /\ actual = FloatValue(strValue)
           ELSE IF ~Contains(strValue, ".") /\ ParseIntOk(strValue)
           THEN IsInteger(actual) /\ actual = IntValue(strValue)
           ELSE actual = Str(strValue)

\* "True" stays a string: the boolean rule is case-sensitive
C13_Witness ==
    /\ pc = "coerced"
    /\ strValue = <<"T", "r", "u", "e">>
    /\ actual = Str(<<"T", "r", "u", "e">>)

(***************************************************************************)
(* C14.  Leading-zero rule of the Type Coercer: every string of length     *)
(* greater than 1 whose first character is '0' and whose second character  *)
(* is not '.' is returned unchanged as a string, whatever follows; the     *)
(* one-character string "0" becomes integer 0; a string starting with "0." *)
(* is handled by the float rule.                                           *)
(***************************************************************************)
C14_LeadingZero ==
    pc = "coerced" =>
        /\ LeadingZero(strValue) => actual = Str(strValue)
        /\ strValue = <<"0">> => actual = GoInt(FALSE, <<"0">>)
        /\ (Len(strValue) >= 2 /\ strValue[1] = "0" /\ strValue[2] = ".") =>
                actual = IF ParseFloatOk(strValue) THEN FloatValue(strValue)
                         ELSE Str(strValue)

\* the phone number of the tests stays a string
C14_Witness ==
    /\ pc = "coerced"
    /\ strValue = <<"0", "8", "1", "2", "3", "4", "5", "6", "7", "8", "9">>
    /\ actual = Str(strValue)

(***************************************************************************)
(* C15.  Integer width in the Type Coercer: a base-10 integer string not   *)
(* caught by the leading-zero rule is returned as a native-width int when  *)
(* its value lies in [-2^31, 2^31-1], as a 64-bit integer when its value   *)
(* lies outside that range but inside the signed 64-bit range, and as the  *)
(* original string when its value is outside the signed 64-bit range.      *)
(***************************************************************************)
C15_IntegerWidth ==
    (pc = "coerced" /\ IntegerString(strValue) /\ ~LeadingZero(strValue)) =>
        IF InInt32(strValue)
        THEN actual = GoInt(Negative(strValue), Magnitude(strValue))
        ELSE IF InInt64(strValue)
        THEN actual = GoInt64(Negative(strValue), Magnitude(strValue))
        ELSE actual = Str(strValue)

\* -2^31 is the last native-width int
C15_Witness ==
    /\ pc = "coerced"
    /\ strValue = <<"-">> \o MinInt32Digits
    /\ actual = GoInt(TRUE, MinInt32Digits)

(***************************************************************************)
(* C16.  The string value "null" of a form or query field is converted to  *)
(* nil in the tree mapValuesOf returns.                                    *)
(***************************************************************************)
C16_NullBecomesNil ==
    pc = "return" =>
        \A i \in 1..Len(queries) :
            (queries[i].Value = Str(Null) /\ ConflictFree(i)) =>
                Lookup(Map(maps), SegmentsOf(i)) = Nil

(***************************************************************************)
(* C17.  Values that are not strings pass through mapValuesOf untouched: a *)
(* file, a boolean, a number or nil given as a property value appears at   *)
(* its path in the result as the identical value, also when it is placed   *)
(* inside a collapsed sequence.                                            *)
(***************************************************************************)
C17_NonStringsUntouched ==
    pc = "return" =>
        \A i \in 1..Len(queries) :
            (queries[i].Value.kind # "string" /\ ConflictFree(i)) =>
                Lookup(Map(maps), SegmentsOf(i)) = queries[i].Value

(***************************************************************************)
(* C18.  Concurrent calls of mapValuesOf, each with its own property       *)
(* sequence, do not interfere: under every interleaving of their steps     *)
(* each call returns the tree it returns when run alone, and the only      *)
(* state they share, the bracket-to-dot replacer, is never written after   *)
(* its initialisation.                                                     *)
(***************************************************************************)
C18_NoInterference ==
    /\ [](\A c \in DOMAIN calls :
            /\ calls[c].pc = "return" => Map(calls[c].maps) = Alone(calls[c].queries)
            /\ calls[c].pc = "panic" => Alone(calls[c].queries) = Panic)
    /\ [][replacer' = replacer]_vars

\* two calls on different arguments have both returned, each with its own tree
C18_Witness ==
    /\ pc = "go"
    /\ calls[1].pc = "return"
    /\ calls[2].pc = "return"
    /\ calls[1].queries = <<Property(<<"a", "[", "b", "]">>, Str(<<"7">>))>>
    /\ calls[2].queries = <<Property(<<"c", "[", "0", "]">>, Str(<<"x">>)),
                            Property(<<"a", "[", "b", "]">>, Str(<<"7">>))>>
    /\ calls[1].maps = (<<"a">> :> Map(<<"b">> :> GoInt(FALSE, <<"7">>)))
    /\ calls[2].maps = (<<"a">> :> Map(<<"b">> :> GoInt(FALSE, <<"7">>)))
                        @@ (<<"c">> :> Slice(<<Str(<<"x">>)>>))

(***************************************************************************)
(* C19.  Multi-value expansion: for a query or form key without '[' that   *)
(* carries n >= 2 values v0..v(n-1), and no other key resolving under the  *)
(* same top-level segment, Query and FormData return under that key a      *)
(* sequence of length n whose element i is the coerced vi; a key with      *)
(* exactly one value yields the coerced scalar, not a sequence.            *)
(***************************************************************************)
C19_MultiValueExpansion ==
    (pc = "return" /\ branch = Unused /\ ~request.FormErr) =>
        \A k \in DOMAIN FieldsRead :
            (/\ ~Contains(k, "[")
             /\ \A k2 \in NamesRead \ {k} : TopSegment(k2) # TopSegment(k))
            =>
            LET val == FieldsRead[k]
            IN  /\ k \in DOMAIN maps
                /\ IF Len(val) = 1
                   THEN maps[k] = convertStringToActualType(val[1])
                   ELSE /\ maps[k].kind = "slice"
                        /\ Len(maps[k].items) = Len(val)
                        /\ \A i \in 1..Len(val) :
                                maps[k].items[i] = convertStringToActualType(val[i])

(***************************************************************************)
(* C20.  Parse dispatches on the prefix of the Content-Type header:        *)
(* "application/json", also with parameters such as charset, goes to Json; *)
(* "multipart/form-data" and "application/x-www-form-urlencoded" go to     *)
(* FormData; every other or missing content type goes to Query; Parse      *)
(* returns a non-nil error only on the JSON branch.                        *)
(***************************************************************************)
C20_ParseDispatch ==
    pc # "parse" =>
        /\ HasPrefix(request.ContentType, JsonType) => branch = "Json"
        /\ (HasPrefix(request.ContentType, MultipartType)
                \/ HasPrefix(request.ContentType, UrlEncodedType)) => branch = "FormData"
        /\ (/\ ~HasPrefix(request.ContentType, JsonType)
            /\ ~HasPrefix(request.ContentType, MultipartType)
            /\ ~HasPrefix(request.ContentType, UrlEncodedType)) => branch = "Query"
        /\ branch = "Json" => pc \in {"Json", "return"}
        /\ branch = "FormData" => pc \in {"FormData", "call", "range", "return", "panic"}
        /\ branch = "Query" => pc \in {"Query", "call", "range", "return", "panic"}
        /\ err # Nil => branch = "Json"

\* a JSON request with a charset parameter and a malformed body: Json ran
\* and its error is returned
C20_Witness ==
    /\ pc = "return"
    /\ request.ContentType = JsonType \o CharsetParam
    /\ request.Body.kind = "syntax"
    /\ branch = "Json"
    /\ err = Error
    /\ maps = EmptyMap

(***************************************************************************)
(* C21.  When a multipart form carries two or more files under one field   *)
(* name, with or without bracket notation in the name, and ToBind returns  *)
(* no error, the FileHeaders field of the struct whose name matches the    *)
(* field name holds those files, in upload order.                          *)
(***************************************************************************)
C21_FileHeadersBound ==
    (pc = "bound" /\ err = Nil /\ ~request.FormErr) =>
        \A name \in DOMAIN request.MultipartFile :
            (/\ Len(request.MultipartFile[name]) >= 2
             /\ EqualFold(<<"F">>, TopSegment(name)))
            => model.fields[<<"F">>].value = FileHeaders(request.MultipartFile[name])

\* the same for names that carry a bracket group
C21_BracketNamesBound ==
    (pc = "bound" /\ err = Nil /\ ~request.FormErr) =>
        \A name \in DOMAIN request.MultipartFile :
            (/\ Len(request.MultipartFile[name]) >= 2
             /\ Contains(name, "[")
             /\ EqualFold(<<"F">>, TopSegment(name)))
            => model.fields[<<"F">>].value = FileHeaders(request.MultipartFile[name])

\* two files under the plain name f, bound without error: F is still nil
C21_PlainNameUnbound ==
    /\ pc = "bound"
    /\ err = Nil
    /\ request.MultipartFile = (<<"f">> :> <<FileRef(1), FileRef(2)>>)
    /\ ~request.FormErr
    /\ maps[<<"f">>] = Slice(<<FileRef(1), FileRef(2)>>)
    /\ model.fields[<<"F">>].value = Nil

(***************************************************************************)
(* C22.  The post-order walk is idempotent: fixValueToActualType applied   *)
(* to the tree that mapValuesOf returned (a tree the walk has already      *)
(* processed) does not panic and changes nothing.                          *)
(***************************************************************************)
C22_WalkIdempotent ==
    [][pc = "return" => (pc' = "fixed" /\ maps' = maps)]_vars

\* the second walk has run over an array, an object below it and a string
\* that looks like a number
C22_Witness ==
    /\ pc = "fixed"
    /\ <<"u">> \in DOMAIN maps
    /\ maps[<<"u">>] = Slice(<<Str(<<"0", "0", "7">>),
                               Map(<<"c">> :> Str(<<"T", "r", "u", "e">>))>>)

(***************************************************************************)
(* C23.  Insertion and the walk terminate.  While transformDotPathToMap    *)
(* runs on a path of n dot-segments, at most n calls are entered and the   *)
(* i-th nested call holds a path of n - i segments; the walk enters one    *)
(* call of fixValueToActualType per mapping node of the tree it is given;  *)
(* and mapValuesOf reaches its end, by returning or by the panic of the    *)
(* collapser, for every property sequence.                                 *)
(***************************************************************************)
C23_Terminates ==
    /\ [](pc = "range" /\ stack # <<>> =>
            /\ entered <= SegmentCount(stack[1].dotPath)
            /\ Len(stack) <= entered
            /\ \A i \in 1..Len(stack) :
                SegmentCount(stack[i].dotPath)
                    = SegmentCount(stack[1].dotPath) - (i - 1))
    /\ [](pc = "walk" => entered <= MapNodes(unfixed))
    /\ [](pc = "return" => entered = MapNodes(unfixed))
    /\ <>(pc \in {"return", "panic"})

\* mapValuesOf has returned after an insertion three calls deep and a walk
\* over four mapping nodes
C23_Witness ==
    /\ pc = "return"
    /\ \E i \in 1..Len(queries) : SegmentCount(replaceBracketKeyIntoDotKey(queries[i].Path)) = 3
    /\ entered = 4
    /\ MapNodes(unfixed) = 4

(***************************************************************************)
(* C24.  Scalar beats subtree in both orders: when one property writes a   *)
(* value at path p and another property of the same input writes below p,  *)
(* the result holds the coerced value of the first at p, whichever of the  *)
(* two comes first, and nothing below p.                                   *)
(***************************************************************************)
C24_ScalarBeatsSubtree ==
    pc = "return" =>
        \A i \in 1..Len(queries) :
            ScalarCollision(i) =>
                /\ Lookup(Map(maps), SegmentsOf(i)) = CoercedOf(i)
                /\ \A j \in 1..Len(queries) :
                        Below(SegmentsOf(i), SegmentsOf(j))
                            => Lookup(Map(maps), SegmentsOf(j)) = Absent

\* the same for paths whose indices are spelled as strconv.Itoa spells them
C24_ScalarBeatsSubtreeCanonical ==
    pc = "return" =>
        \A i \in 1..Len(queries) :
            (ScalarCollision(i) /\ \A k \in 1..Len(queries) : Canonical(k)) =>
                /\ Lookup(Map(maps), SegmentsOf(i)) = CoercedOf(i)
                /\ \A j \in 1..Len(queries) :
                        Below(SegmentsOf(i), SegmentsOf(j))
                            => Lookup(Map(maps), SegmentsOf(j)) = Absent

(***************************************************************************)
(* C25.  Query(r).ToMap() and FormData(r).ToMap() are functions of the     *)
(* request alone: the tree returned is the tree obtained for every other   *)
(* order in which the maps of parameter names and of file names could have *)
(* been iterated, also when two names resolve to the same dot path.        *)
(***************************************************************************)
C25_IterationOrderIrrelevant ==
    (pc = "return" /\ branch = Unused) =>
        \A order \in Orders(DOMAIN FieldsRead), fileOrder \in Orders(FilesRead) :
            Alone(PropertiesRead(order, fileOrder)) = Map(maps)

\* the same for requests in which no two names share a top-level segment
C25_DisjointNamesOrderIrrelevant ==
    (pc = "return" /\ branch = Unused
        /\ \A k1, k2 \in NamesRead : k1 # k2 => TopSegment(k1) # TopSegment(k2)) =>
        \A order \in Orders(DOMAIN FieldsRead), fileOrder \in Orders(FilesRead) :
            Alone(PropertiesRead(order, fileOrder)) = Map(maps)

(***************************************************************************)
(* C26.  mapValuesOf does not depend on the order in which the groups are  *)
(* processed: whatever order the loop over mapQuery takes, the outcome is  *)
(* the one of a fixed order, and it is also the outcome for the input with *)
(* two adjacent properties of different top-level keys exchanged.          *)
(***************************************************************************)
C26_GroupOrderIrrelevant ==
    pc \in {"return", "panic"} =>
        /\ Alone(queries) = Outcome
        /\ \A i \in SwapPositions : Alone(Swap(queries, i)) = Outcome

\* three groups visited, and two exchangeable neighbours in the input
C26_Witness ==
    /\ pc = "return"
    /\ Cardinality(DOMAIN mapQuery) = 3
    /\ Cardinality(SwapPositions) = 2

(***************************************************************************)
(* C27.  Collapse loses no value: whenever the Array Collapser returns a   *)
(* sequence, for every key k of the input mapping the element at index     *)
(* int(k) of the sequence equals mapping[k], also for keys such as "01" or *)
(* "+1" that parse as integers without being in canonical form.            *)
(***************************************************************************)
C27_CollapseLosesNoValue ==
    (pc = "collapsed" /\ collapsed.kind = "slice") =>
        \A k \in DOMAIN vMap : collapsed.items[AtoiVal(k) + 1] = vMap[k]

\* the same for mappings whose keys are all spelled as strconv.Itoa spells
\* them
C27_CanonicalKeysKept ==
    (pc = "collapsed" /\ collapsed.kind = "slice"
        /\ \A k \in DOMAIN vMap : Itoa(AtoiVal(k)) = k) =>
        \A k \in DOMAIN vMap : collapsed.items[AtoiVal(k) + 1] = vMap[k]

(***************************************************************************)
(* C28.  Integer coercion is lossless: whenever the Type Coercer turns a   *)
(* string s into an int or an int64 n, the decimal rendering of n is       *)
(* exactly s; no sign and no zero of the text is lost.                     *)
(***************************************************************************)
C28_IntegerLossless ==
    (pc = "coerced" /\ IsInteger(actual)) => Rendering(actual) = strValue

\* the same for strings without a plus sign and without a zero right after
\* a minus sign
C28_PlainIntegerLossless ==
    (pc = "coerced" /\ IsInteger(actual)
        /\ strValue[1] # "+"
        /\ ~(Len(strValue) > 1 /\ strValue[1] = "-" /\ strValue[2] = "0"))
    => Rendering(actual) = strValue

\* "-007" has become the int -7
C28_SignedZerosLost ==
    /\ pc = "coerced"
    /\ strValue = <<"-", "0", "0", "7">>
    /\ actual = GoInt(TRUE, <<"7">>)

(***************************************************************************)
(* C29.  For a query or form key that contains '[' and carries several     *)
(* values, only the first value is turned into a property: the properties  *)
(* handed to mapValuesOf hold the key with its first value, and both the   *)
(* properties and the returned tree are those of the request without the   *)
(* further values, so these appear nowhere in the result.                  *)
(***************************************************************************)
C29_OnlyFirstValue ==
    (pc \in {"call", "range", "return"} /\ branch = Unused) =>
        /\ \A k \in DOMAIN FieldsRead :
            (Contains(k, "[") /\ queries # <<>>) =>
                \E i \in 1..Len(queries) : queries[i] = Property(k, Str(FieldsRead[k][1]))
        /\ \E order \in Orders(DOMAIN FieldsRead), fileOrder \in Orders(FilesRead) :
                /\ queries = PropertiesOf(FirstValuesOnly(request), order, fileOrder)
                /\ pc = "return" => Alone(PropertiesOf(FirstValuesOnly(request),
                                                       order, fileOrder)) = Map(maps)

\* ?tags[]=a&tags[]=7 has been parsed: the 7 is nowhere
C29_Witness ==
    /\ pc = "return"
    /\ request.ContentType = <<>>
    /\ request.URL = (<<"t", "a", "g", "s", "[", "]">> :> <<<<"a">>, <<"7">>>>)
    /\ maps = (<<"t", "a", "g", "s">> :> Str(<<"a">>))


(***************************************************************************)
(* C30.  The root is never collapsed: mapValuesOf returns a mapping with   *)
(* exactly the first segments of the input paths as keys, also when all of *)
(* them are digit strings and the collapser would turn such a mapping into *)
(* a sequence; a value written at a top-level key is found under that key, *)
(* whatever its spelling; and a sequence is found only below the root, at  *)
(* a key that some path continues.                                         *)
(***************************************************************************)
C30_RootNeverCollapsed ==
    pc = "return" =>
        /\ DOMAIN maps = {SegmentsOf(i)[1] : i \in 1..Len(queries)}
        /\ \A i \in 1..Len(queries) :
                (/\ Len(SegmentsOf(i)) = 1
                 /\ \A l \in (i + 1)..Len(queries) : SegmentsOf(l) # SegmentsOf(i))
                => maps[SegmentsOf(i)[1]] = CoercedOf(i)
        /\ \A k \in DOMAIN maps :
                maps[k].kind = "slice" =>
                    \E i \in 1..Len(queries) :
                        SegmentsOf(i)[1] = k /\ Len(SegmentsOf(i)) > 1

\* every top-level key is a digit string, the collapser would make a
\* sequence of three elements of the root, and the root is a mapping with
\* the keys "0", "01" and "2"
C30_Witness ==
    /\ pc = "return"
    /\ DOMAIN maps = {<<"0">>, <<"0", "1">>, <<"2">>}
    /\ convertMapToSliceIfNumericKeys(maps).kind = "slice"
    /\ Len(convertMapToSliceIfNumericKeys(maps).items) = 3
====
